---- MODULE Spec2Model ----
(***************************************************************************)
(* State-machine model of the transfer portal orchestrator                 *)
(* (src/src/agents/transfer_portal_orchestrator.py) and of the news        *)
(* monitor's signal post-processing (src/src/agents/news_monitor_agent.py).*)
(*                                                                         *)
(* Conventions.  A Python str is a sequence of one-character strings.  An  *)
(* Optional value is a sequence of length at most one: None is << >> and a *)
(* present value v is <<v>>.  A missing dict key and a key holding None    *)
(* behave alike in every place the code reads a raw record, so both are    *)
(* None here.  A Python dict keyed by DataSource is a function whose       *)
(* domain is the set of keys present.  self.players, a dict whose          *)
(* iteration order is its insertion order, is a sequence of TransferPlayer *)
(* records; the key of each entry is its player_id field.                  *)
(***************************************************************************)
EXTENDS Integers, Sequences, FiniteSets, TLC

VARIABLES
    players,      \* self.players, in insertion order
    metrics,      \* self.metrics: source -> AgentMetrics
    data_cache,   \* agent.data_cache of each source's agent
    now,          \* the wall clock read by datetime.now()
    last_consolidation, \* self.last_consolidation
    calls,        \* the refresh_agent invocations: those gathered by refresh_all_agents, one per source, and a single-source one
    allPc,        \* where the refresh_all_agents invocation stands
    allResult,    \* what refresh_all_agents returned last
    nCalls,       \* number of refresh_agent invocations begun
    pass,         \* existing_players and processed_players of the last consolidation pass
    hist,         \* the record merges applied one by one, newest first (at most two kept)
    on3Said,      \* player id -> scalar field -> the value ON3 supplied last
    nMerges,      \* number of record merges applied one by one
    asked,        \* the PortalQuery of the last query_players call, None before any
    result,       \* what that call returned
    news_items,   \* the news monitor's self.news_items, in insertion order
    newsPc,       \* where the refresh_all_sources invocation stands
    newsPending,  \* the gathered source refreshes that have not returned yet
    newsPre,      \* self.news_items as _post_process_news_items found it last
    nNews,        \* number of refresh_all_sources invocations begun
    tasks,        \* self.refresh_tasks: where each source's _schedule_refreshes task stands
    stopPc,       \* where the stop() invocation stands
    portal_stats, \* the simplified API's portal_stats: agent_status and player_count
    player_cache, \* player_cache["data"] of the simplified API
    refresh_data, \* the simplified API's refresh_data tasks: whether the startup event ran, how many tasks have not begun, how many await their fetch
    answers       \* the answers of the POST /refresh requests, oldest first

orchVars == <<players, metrics, data_cache, last_consolidation>>
callVars == <<calls, allPc, allResult, nCalls, pass>>
mergeVars == <<hist, on3Said, nMerges>>
queryVars == <<asked, result>>
newsVars == <<news_items, newsPc, newsPending, newsPre, nNews>>
schedVars == <<tasks, stopPc>>
apiVars == <<portal_stats, player_cache, refresh_data, answers>>
vars == <<players, metrics, data_cache, last_consolidation, now,
          calls, allPc, allResult, nCalls, pass, hist, on3Said, nMerges,
          asked, result, news_items, newsPc, newsPending, newsPre, nNews,
          tasks, stopPc, portal_stats, player_cache, refresh_data, answers>>

-----------------------------------------------------------------------------
(* Bounds of the model *)

MaxMerges == 2
MaxTime == 1
MaxCalls == 3
MaxNews == 2

-----------------------------------------------------------------------------
(* Optional values and Python truthiness *)

None == << >>
Some(v) == <<v>>

\* bool(x) of an Optional[str]: None and "" are falsy
TruthyText(o) == o # None /\ o[1] # << >>

-----------------------------------------------------------------------------
(* DataSource and AgentStatus *)

ON3 == "on3"
RIVALS == "rivals"
TWO47 == "247sports"
ALL == "all"

\* the keys of self.agents, in the order the dict holds them
AgentOrder == <<ON3, RIVALS, TWO47>>
Sources == {AgentOrder[i] : i \in 1..Len(AgentOrder)}

READY == "ready"
RUNNING == "running"
ERROR == "error"
INACTIVE == "inactive"

-----------------------------------------------------------------------------
(* Strings *)

\* str.lower() on one character of the alphabet the model uses
LowerChar(c) ==
    CASE c = "A" -> "a"
      [] c = "B" -> "b"
      [] c = "D" -> "d"
      [] c = "G" -> "g"
      [] c = "I" -> "i"
      [] c = "K" -> "k"
      [] c = "N" -> "n"
      [] c = "P" -> "p"
      [] c = "S" -> "s"
      [] c = "U" -> "u"
      [] c = "Z" -> "z"
      [] OTHER -> c

Lower(s) == [i \in 1..Len(s) |-> LowerChar(s[i])]

\* s.replace(" ", "")
RemoveSpaces(s) == SelectSeq(s, LAMBDA c : c # " ")

\* _generate_player_id
GeneratePlayerId(name, school) ==
    LET normalized_name == RemoveSpaces(Lower(name))
    IN  IF TruthyText(school)
        THEN normalized_name \o <<"_">> \o RemoveSpaces(Lower(school[1]))
        ELSE normalized_name

-----------------------------------------------------------------------------
(* Raw records and consolidated players *)

ScalarFields == {"position", "height", "previous_school", "class_year",
                 "eligibility", "status", "destination_school"}

\* the raw-record keys _update_player_from_source reads for the basic fields
ScalarKeys == ScalarFields \cup {"last_team", "new_team"}

NA == <<"N", "/", "A">>

\* a rank as a source reports it: absent, an integer, or text int() rejects
NoRank == [kind |-> "none", val |-> 0]
IntRank(n) == [kind |-> "int", val |-> n]
TextRank == [kind |-> "text", val |-> 0]

\* bool(source_player["rank"]): None and 0 are falsy, non-empty text is truthy
TruthyRank(r) == (r.kind = "int" /\ r.val # 0) \/ r.kind = "text"

\* a raw record with a name and no other field
BareRecord(name) ==
    [name |-> name, position |-> None, height |-> None, previous_school |-> None,
     last_team |-> None, class_year |-> None, eligibility |-> None, status |-> None,
     destination_school |-> None, new_team |-> None, rank |-> NoRank,
     stats |-> None, nil_valuation |-> None, profile_url |-> None]

\* TransferPlayer(player_id=..., name=..., sources=[source])
NewPlayer(player_id, name, source) ==
    [player_id |-> player_id, name |-> name,
     position |-> None, height |-> None, previous_school |-> None,
     class_year |-> None, eligibility |-> None, status |-> None,
     destination_school |-> None,
     stats |-> << >>, rankings |-> << >>, composite_ranking |-> None,
     profile_urls |-> << >>, nil_valuation |-> << >>,
     sources |-> <<source>>, last_updated |-> << >>]

\* mutant of the dict write: the entries of the other keys dropped
PutAlone(d, k, v) == k :> v

\* d[k] = v on a dict
Put(d, k, v) == (k :> v) @@ d

-----------------------------------------------------------------------------
(* Composite ranking *)

RECURSIVE SumOver(_, _)
SumOver(f, keys) ==
    IF keys = {} THEN 0
    ELSE LET k == CHOOSE x \in keys : TRUE
         IN  f[k] + SumOver(f, keys \ {k})

\* int(a / b) for b > 0: the quotient truncated toward zero
TruncDiv(a, b) == IF a >= 0 THEN a \div b ELSE -((-a) \div b)

\* mutant of the composite: the sum divided by the number of sources
CompositeOverAllSources(rankings) ==
    TruncDiv(SumOver(rankings, DOMAIN rankings), Cardinality(Sources))

\* int(sum(player.rankings.values()) / len(player.rankings))
CompositeRanking(rankings) ==
    TruncDiv(SumOver(rankings, DOMAIN rankings), Cardinality(DOMAIN rankings))

\* the "Update rankings" block: int() of text raises ValueError, which is swallowed
UpdateRankings(player, source_player, source) ==
    IF TruthyRank(source_player.rank) /\ source_player.rank.kind = "int"
    THEN LET rankings == Put(player.rankings, source, source_player.rank.val)
         IN  [player EXCEPT !.rankings = rankings,
                            !.composite_ranking =
                                IF DOMAIN rankings # {}
                                THEN Some(CompositeRanking(rankings))
                                ELSE @]
    ELSE player

-----------------------------------------------------------------------------
(* Basic (scalar) fields *)

AnyBasicSet(player) == \E f \in ScalarFields : TruthyText(player[f])

\* mutants of update_basic: the authority test dropped, the authority lost
UpdateBasicAlways(player, source) == TRUE
UpdateBasicOnlyIfEmpty(player, source) == ~AnyBasicSet(player)

\* update_basic
UpdateBasic(player, source) == source = ON3 \/ ~AnyBasicSet(player)

\* if key in source_player and source_player[key]: player.field = source_player[key]
CopyIfPresent(player, field, source_player) ==
    IF TruthyText(source_player[field])
    THEN [player EXCEPT ![field] = source_player[field]]
    ELSE player

CopyPreviousSchool(player, source_player) ==
    IF TruthyText(source_player.previous_school)
    THEN [player EXCEPT !.previous_school = source_player.previous_school]
    ELSE IF TruthyText(source_player.last_team)
    THEN [player EXCEPT !.previous_school = source_player.last_team]
    ELSE player

CopyDestinationSchool(player, source_player) ==
    IF TruthyText(source_player.destination_school)
    THEN [player EXCEPT !.destination_school = source_player.destination_school]
    ELSE IF TruthyText(source_player.new_team) /\ source_player.new_team[1] # NA
    THEN [player EXCEPT !.destination_school = source_player.new_team]
    ELSE player

UpdateBasicFields(player, source_player, source) ==
    IF UpdateBasic(player, source)
    THEN LET p1 == CopyIfPresent(player, "position", source_player)
             p2 == CopyIfPresent(p1, "height", source_player)
             p3 == CopyPreviousSchool(p2, source_player)
             p4 == CopyIfPresent(p3, "class_year", source_player)
             p5 == CopyIfPresent(p4, "eligibility", source_player)
             p6 == CopyIfPresent(p5, "status", source_player)
         IN  CopyDestinationSchool(p6, source_player)
    ELSE player

-----------------------------------------------------------------------------
(* _update_player_from_source *)

UpdatePerSource(player, source_player, source, t) ==
    LET p1 == [player EXCEPT !.last_updated = Put(@, source, t)]
        p2 == IF TruthyText(source_player.profile_url)
              THEN [p1 EXCEPT !.profile_urls = Put(@, source, source_player.profile_url[1])]
              ELSE p1
        p3 == UpdateRankings(p2, source_player, source)
        p4 == IF source_player.stats # None
              THEN [p3 EXCEPT !.stats =
                       Put(@, source, [ppg |-> source_player.stats[1].ppg,
                                       source |-> source])]
              ELSE p3
    IN  IF TruthyText(source_player.nil_valuation)
        THEN [p4 EXCEPT !.nil_valuation = Put(@, source, source_player.nil_valuation[1])]
        ELSE p4

UpdatePlayerFromSource(player, source_player, source, t) ==
    UpdateBasicFields(UpdatePerSource(player, source_player, source, t),
                      source_player, source)

-----------------------------------------------------------------------------
(* The store and the body of consolidate_data's loop over a batch *)

StoreIds(store) == {store[i].player_id : i \in 1..Len(store)}

IndexOf(store, id) ==
    IF id \in StoreIds(store)
    THEN CHOOSE i \in 1..Len(store) : store[i].player_id = id
    ELSE 0

Lookup(store, id) == store[IndexOf(store, id)]

\* mutant of the sources update: the membership test dropped
AddSourceAlways(sources, source) == Append(sources, source)

\* mutant of the sources update: the wildcard appended for the source
AddSourceWildcard(sources, source) ==
    IF \E i \in 1..Len(sources) : sources[i] = source THEN sources ELSE Append(sources, ALL)

\* if source not in player.sources: player.sources.append(source)
AddSource(sources, source) ==
    IF \E i \in 1..Len(sources) : sources[i] = source
    THEN sources
    ELSE Append(sources, source)

\* lines 306-326 for one well-formed record: create or fetch, then update
ConsolidateRecord(store, source, player_data, t) ==
    LET player_id == GeneratePlayerId(player_data.name[1], player_data.previous_school)
        i == IndexOf(store, player_id)
    IN  IF i = 0
        THEN Append(store,
                    UpdatePlayerFromSource(
                        NewPlayer(player_id, player_data.name[1], source),
                        player_data, source, t))
        ELSE [store EXCEPT ![i] =
                UpdatePlayerFromSource(
                    [store[i] EXCEPT !.sources = AddSource(@, source)],
                    player_data, source, t)]

-----------------------------------------------------------------------------
(* consolidate_data *)

\* the source's loop over its batch from record i on; a record without a name
\* raises at line 307, and the except clause of the source ends the loop
RECURSIVE ConsolidateBatch(_, _, _, _, _)
ConsolidateBatch(acc, source, data, i, t) ==
    IF i > Len(data) THEN acc
    ELSE IF data[i].name = None THEN acc
    ELSE LET player_id == GeneratePlayerId(data[i].name[1], data[i].previous_school)
         IN  ConsolidateBatch(
                 [store |-> ConsolidateRecord(acc.store, source, data[i], t),
                  processed |-> acc.processed \cup {player_id}],
                 source, data, i + 1, t)

\* mutant of the status test: a source whose refresh is in flight is skipped
OnlyReadyIsLive(status) == status = READY

\* "Skip inactive or error agents"
IsLive(status) == status \in {READY, RUNNING}

\* mutant of the loop over the agents: break for continue, so that a source
\* that is not live ends the pass for the sources after it
RECURSIVE ConsolidateUntilDead(_, _, _, _, _)
ConsolidateUntilDead(acc, k, caches, m, t) ==
    IF k > Len(AgentOrder) THEN acc
    ELSE LET source == AgentOrder[k]
         IN  IF ~IsLive(m[source].status) \/ caches[source] = << >>
             THEN acc
             ELSE ConsolidateUntilDead(
                      ConsolidateBatch(acc, source, caches[source], 1, t),
                      k + 1, caches, m, t)

\* the loop over self.agents.items() from the k-th agent on
RECURSIVE ConsolidateSources(_, _, _, _, _)
ConsolidateSources(acc, k, caches, m, t) ==
    IF k > Len(AgentOrder) THEN acc
    ELSE LET source == AgentOrder[k]
         IN  IF ~IsLive(m[source].status) \/ caches[source] = << >>
             THEN ConsolidateSources(acc, k + 1, caches, m, t)
             ELSE ConsolidateSources(
                      ConsolidateBatch(acc, source, caches[source], 1, t),
                      k + 1, caches, m, t)

\* mutant of the removal step: nothing is removed
GarbageCollectNothing(store, existing, processed) == store

\* "Remove players that no longer exist in any source"
GarbageCollect(store, existing, processed) ==
    SelectSeq(store, LAMBDA p : p.player_id \notin (existing \ processed))

ConsolidateData(store, caches, m, t) ==
    LET existing == StoreIds(store)
        acc == ConsolidateSources([store |-> store, processed |-> {}], 1, caches, m, t)
    IN  [store |-> GarbageCollect(acc.store, existing, acc.processed),
         existing |-> existing,
         processed |-> acc.processed]

-----------------------------------------------------------------------------
(* query_players *)

\* ord() of the characters the model uses
Ord(c) ==
    CASE c = " " -> 32 [] c = "/" -> 47 [] c = "_" -> 95
      [] c = "A" -> 65 [] c = "B" -> 66 [] c = "D" -> 68 [] c = "G" -> 71
      [] c = "K" -> 75 [] c = "N" -> 78 [] c = "P" -> 80 [] c = "S" -> 83
      [] c = "U" -> 85 [] c = "Z" -> 90
      [] c = "a" -> 97 [] c = "b" -> 98 [] c = "d" -> 100 [] c = "e" -> 101
      [] c = "k" -> 107 [] c = "m" -> 109 [] c = "o" -> 111 [] c = "u" -> 117
      [] c = "y" -> 121 [] c = "z" -> 122

\* a < b on str
TextLess(a, b) ==
    \E i \in 1..(Len(a) + 1) :
        /\ i <= Len(b)
        /\ \A j \in 1..(i - 1) : j <= Len(a) /\ a[j] = b[j]
        /\ (i = Len(a) + 1 \/ Ord(a[i]) < Ord(b[i]))

\* needle in hay
Contains(hay, needle) ==
    \E i \in 0..(Len(hay) - Len(needle)) : SubSeq(hay, i + 1, i + Len(needle)) = needle

\* bool(x) of an Optional number
TruthyNum(o) == o # None /\ o[1] # 0

\* PortalQuery()
DefaultLimit == 20
DefaultQuery ==
    [position |-> None, min_ppg |-> None, school |-> None, status |-> None,
     source |-> ALL, limit |-> Some(DefaultLimit), min_ranking |-> None,
     max_ranking |-> None]

\* text and p_text and text.lower() in p_text.lower(), for a filter that is set
MatchesText(text, p_text) ==
    TruthyText(p_text) /\ Contains(Lower(p_text[1]), Lower(text[1]))

\* the filters of lines 442-480, all of them applied to one player
PassesFilters(p, query) ==
    /\ query.source # ALL => \E i \in 1..Len(p.sources) : p.sources[i] = query.source
    /\ TruthyText(query.position) => MatchesText(query.position, p.position)
    /\ TruthyText(query.school) =>
           \/ MatchesText(query.school, p.previous_school)
           \/ MatchesText(query.school, p.destination_school)
    /\ TruthyText(query.status) => MatchesText(query.status, p.status)
    /\ query.min_ppg # None =>
           \E s \in DOMAIN p.stats :
               TruthyNum(p.stats[s].ppg) /\ p.stats[s].ppg[1] >= query.min_ppg[1]
    /\ query.min_ranking # None =>
           TruthyNum(p.composite_ranking) /\ p.composite_ranking[1] >= query.min_ranking[1]
    /\ query.max_ranking # None =>
           TruthyNum(p.composite_ranking) /\ p.composite_ranking[1] <= query.max_ranking[1]

\* the first part of the sort key, -(p.composite_ranking or float('inf')):
\* minus infinity for a player with no composite ranking (or one of 0)
KeyIsMinusInf(p) == ~TruthyNum(p.composite_ranking)

\* key(p) < key(q) for the key (-(composite or inf), name)
KeyLess(p, q) ==
    \/ KeyIsMinusInf(p) /\ ~KeyIsMinusInf(q)
    \/ /\ ~KeyIsMinusInf(p) /\ ~KeyIsMinusInf(q)
       /\ -p.composite_ranking[1] < -q.composite_ranking[1]
    \/ /\ KeyIsMinusInf(p) = KeyIsMinusInf(q)
       /\ KeyIsMinusInf(p) \/ p.composite_ranking[1] = q.composite_ranking[1]
       /\ TextLess(p.name, q.name)

\* list.sort(key=...): ascending and stable; p goes before the first element
\* whose key is greater than its own
InsertByKey(sorted, p) ==
    LET later == {j \in 1..Len(sorted) : KeyLess(p, sorted[j])}
        at == IF later = {} THEN Len(sorted) + 1
              ELSE CHOOSE j \in later : \A k \in later : j <= k
    IN  SubSeq(sorted, 1, at - 1) \o <<p>> \o SubSeq(sorted, at, Len(sorted))

RECURSIVE SortByKey(_, _)
SortByKey(list, sorted) ==
    IF list = << >> THEN sorted
    ELSE SortByKey(Tail(list), InsertByKey(sorted, Head(list)))

\* players[:limit] when the limit is truthy
ApplyLimit(list, limit) ==
    IF ~TruthyNum(limit) THEN list
    ELSE IF limit[1] >= 0
    THEN SubSeq(list, 1, IF limit[1] < Len(list) THEN limit[1] ELSE Len(list))
    ELSE SubSeq(list, 1, Len(list) + limit[1])

\* mutant of query_players: the limit cuts the store before it is filtered and
\* sorted
QueryLimitFirst(store, query) ==
    SortByKey(SelectSeq(ApplyLimit(store, query.limit),
                        LAMBDA p : PassesFilters(p, query)), << >>)

QueryPlayers(store, query) ==
    IF store = << >> THEN << >>
    ELSE ApplyLimit(
             SortByKey(SelectSeq(store, LAMBDA p : PassesFilters(p, query)), << >>),
             query.limit)

-----------------------------------------------------------------------------
(* AgentMetrics and refresh_agent *)

\* AgentMetrics()
InitialMetrics ==
    [last_successful_refresh |-> None, last_refresh_attempt |-> None,
     refresh_count |-> 0, error_count |-> 0, player_count |-> 0,
     average_refresh_time_ms |-> None, status |-> INACTIVE]

\* mutant of the moving average: the last sample alone
EwmaLastSample(avg, sample) == Some([num |-> sample, den |-> 1])

\* the moving average, kept exact as the fraction num/den:
\* 0.8 * avg + 0.2 * sample = (4 * avg + sample) / 5
Ewma(avg, sample) ==
    IF avg = None
    THEN Some([num |-> sample, den |-> 1])
    ELSE Some([num |-> 4 * avg[1].num + sample * avg[1].den, den |-> 5 * avg[1].den])

\* lines 230-231
MetricsOnBegin(m, t) ==
    [m EXCEPT !.status = RUNNING, !.last_refresh_attempt = Some(t)]

\* lines 240-254; start and t are clock readings, the sample is in milliseconds
MetricsOnSuccess(m, data, start, t) ==
    [m EXCEPT !.average_refresh_time_ms = Ewma(@, (t - start) * 1000),
              !.refresh_count = @ + 1,
              !.last_successful_refresh = Some(t),
              !.player_count = Len(data),
              !.status = READY]

\* mutant of the except clause: the failed refresh counted as a refresh too
MetricsOnFailureCounted(m) ==
    [m EXCEPT !.error_count = @ + 1, !.refresh_count = @ + 1, !.status = ERROR]

\* lines 266-267
MetricsOnFailure(m) ==
    [m EXCEPT !.error_count = @ + 1, !.status = ERROR]

\* what scrape_players may raise: errors derived from Exception
FetchErrors == {"Exception", "TimeoutError"}

\* mutant of the except clause: it names one error class
CaughtOnlyTimeout(exc) == exc = "TimeoutError"

\* "except Exception": every class but those derived from BaseException alone
CaughtByRefreshAgent(exc) == exc # "CancelledError"

\* the calls of refresh_agent the model follows: the one refresh_all_agents
\* gathers for each source, named by the source, and one made for a single source
SINGLE == "single"
CallIds == Sources \cup {SINGLE}

IdleCall(source) ==
    [source |-> source, pc |-> "idle", start |-> 0, fetched |-> "none",
     data |-> << >>, ret |-> FALSE]

-----------------------------------------------------------------------------
(* What the source agents return *)

Amy == <<"A", "m", "y">>
Bo == <<"B", "o">>
Zed == <<"Z", "e", "d">>
Duke == <<"D", "u", "k", "e">>
UK == <<"U", " ", "K">>
PG == <<"P", "G">>
SG == <<"S", "G">>

\* one player as each source reports it
AmyFrom(source) ==
    CASE source = ON3 ->
           [BareRecord(Some(Amy)) EXCEPT !.position = Some(PG), !.last_team = Some(Duke),
                                         !.rank = IntRank(5)]
      [] source = RIVALS ->
           [BareRecord(Some(Amy)) EXCEPT !.position = Some(SG), !.last_team = Some(UK),
                                         !.rank = IntRank(9)]
      [] source = TWO47 ->
           [BareRecord(Some(Amy)) EXCEPT !.new_team = Some(Duke), !.rank = IntRank(7)]

BoFrom(source) ==
    CASE source = ON3 ->
           [BareRecord(Some(Bo)) EXCEPT !.new_team = Some(NA), !.rank = TextRank]
      [] source = RIVALS ->
           [BareRecord(Some(Bo)) EXCEPT !.position = Some(SG), !.rank = IntRank(4)]
      [] source = TWO47 ->
           [BareRecord(Some(Bo)) EXCEPT !.position = Some(PG), !.rank = IntRank(9)]

\* the batches a fetch of the source may return
SysBatches(source) ==
    {<< >>, <<AmyFrom(source)>>, <<BoFrom(source)>>, <<AmyFrom(source), BoFrom(source)>>}

AllSysBatches == UNION {SysBatches(source) : source \in Sources}

\* the records merged one at a time: each key of the basic fields alone, whole
\* records that differ from those in every field, and the per-source fields
LowerUK == <<"u", "k">>

SingleKeyRecords ==
    {[BareRecord(Some(Amy)) EXCEPT ![k] = Some(Duke)] : k \in ScalarKeys \ {"previous_school"}}

WholeRecord(v, school, alt) ==
    [BareRecord(Some(Amy)) EXCEPT
        !.position = Some(v), !.height = Some(v), !.previous_school = school,
        !.last_team = alt, !.class_year = Some(v), !.eligibility = Some(v),
        !.status = Some(v), !.destination_school = Some(v), !.new_team = alt]

PerSourceRecord(rank) ==
    [BareRecord(Some(Amy)) EXCEPT
        !.rank = rank, !.stats = Some([ppg |-> Some(12)]), !.nil_valuation = Some(Duke),
        !.profile_url = Some(UK)]

MergeRecords ==
    SingleKeyRecords
    \cup {WholeRecord(UK, None, Some(UK)),
          WholeRecord(Duke, Some(LowerUK), None),
          [BareRecord(Some(Amy)) EXCEPT !.previous_school = Some(UK)],
          [BareRecord(Some(Amy)) EXCEPT !.new_team = Some(NA)],
          [BareRecord(Some(Amy)) EXCEPT !.rank = IntRank(0)],
          [BareRecord(Some(Amy)) EXCEPT !.rank = TextRank],
          PerSourceRecord(IntRank(5)),
          PerSourceRecord(IntRank(8)),
          BareRecord(Some(Amy))}

\* a source's entry of self.refresh_tasks before start() has created the task
NoTask == [pc |-> "none", wake |-> 0, start |-> 0]

-----------------------------------------------------------------------------
(* Initial state *)

Init ==
    /\ players = << >>
    /\ metrics = [s \in Sources |-> InitialMetrics]
    /\ data_cache = [s \in Sources |-> << >>]
    /\ last_consolidation = None
    /\ now = 0
    /\ calls = [c \in CallIds |-> IdleCall(IF c \in Sources THEN c ELSE ON3)]
    /\ allPc = "idle"
    /\ allResult = FALSE
    /\ nCalls = 0
    /\ pass = [ran |-> FALSE, existing |-> {}, processed |-> {}]
    /\ hist = << >>
    /\ on3Said = << >>
    /\ nMerges = 0
    /\ asked = None
    /\ result = << >>
    /\ news_items = << >>
    /\ newsPc = "idle"
    /\ newsPending = {}
    /\ newsPre = << >>
    /\ nNews = 0
    /\ tasks = [s \in Sources |-> NoTask]
    /\ stopPc = "running"
    /\ portal_stats = [agent_status |-> "idle", player_count |-> 0]
    /\ player_cache = << >>
    /\ refresh_data = [up |-> FALSE, pending |-> 0, running |-> 0]
    /\ answers = << >>

-----------------------------------------------------------------------------
(* refresh_agent, refresh_all_agents *)

\* refresh_agent up to the await of scrape_players (lines 225-237)
BeginCall(cs, c, source, t) ==
    [cs EXCEPT ![c] = [source |-> source, pc |-> "fetching", start |-> t,
                       fetched |-> "none", data |-> << >>, ret |-> FALSE]]

\* refresh_agent(source) called on its own (refresh_data with one source)
RefreshAgentBegin(source) ==
    /\ calls[SINGLE].pc # "fetching"
    /\ nCalls < MaxCalls
    /\ metrics' = [metrics EXCEPT ![source] = MetricsOnBegin(@, now)]
    /\ calls' = BeginCall(calls, SINGLE, source, now)
    /\ nCalls' = nCalls + 1
    /\ UNCHANGED <<players, data_cache, last_consolidation, now, allPc, allResult, pass>>
    /\ UNCHANGED <<mergeVars, queryVars, apiVars, newsVars, schedVars>>

\* refresh_all_agents up to the await of gather: the gathered calls run, in the
\* order of self.agents, each up to its own await
RefreshAllStart(budget) ==
    /\ allPc # "gathering"
    /\ nCalls + Cardinality(Sources) <= budget
    /\ metrics' = [s \in Sources |-> MetricsOnBegin(metrics[s], now)]
    /\ calls' = [c \in CallIds |->
                    IF c \in Sources THEN BeginCall(calls, c, c, now)[c] ELSE calls[c]]
    /\ allPc' = "gathering"
    /\ nCalls' = nCalls + Cardinality(Sources)
    /\ UNCHANGED <<players, data_cache, last_consolidation, now, allResult, pass>>
    /\ UNCHANGED <<mergeVars, queryVars, apiVars, newsVars, schedVars>>

\* scrape_players returned data: lines 239-262
FetchReturned(c, data) ==
    /\ calls[c].pc = "fetching"
    /\ LET source == calls[c].source
           m == [metrics EXCEPT ![source] = MetricsOnSuccess(@, data, calls[c].start, now)]
           caches == [data_cache EXCEPT ![source] = data]
           done == ConsolidateData(players, caches, m, now)
       IN  /\ metrics' = m
           /\ data_cache' = caches
           /\ players' = done.store
           /\ pass' = [ran |-> TRUE, existing |-> done.existing,
                       processed |-> done.processed]
           /\ last_consolidation' = Some(now)
           /\ calls' = [calls EXCEPT ![c].pc = "returned", ![c].fetched = "ok",
                                     ![c].data = data, ![c].ret = TRUE]
    /\ UNCHANGED <<now, allPc, allResult, nCalls>>
    /\ UNCHANGED <<mergeVars, queryVars, apiVars, newsVars, schedVars>>

\* the fetch of a source returns one of the batches of that source
FetchSucceed(c, data) ==
    /\ calls[c].pc = "fetching"
    /\ data \in SysBatches(calls[c].source)
    /\ FetchReturned(c, data)

\* scrape_players raised: lines 264-269 when the except clause catches it
FetchFail(c, exc) ==
    /\ calls[c].pc = "fetching"
    /\ exc \in FetchErrors
    /\ IF CaughtByRefreshAgent(exc)
       THEN /\ metrics' = [metrics EXCEPT ![calls[c].source] = MetricsOnFailure(@)]
            /\ calls' = [calls EXCEPT ![c].pc = "returned", ![c].fetched = "error",
                                      ![c].ret = FALSE]
       ELSE /\ metrics' = metrics
            /\ calls' = [calls EXCEPT ![c].pc = "raised", ![c].fetched = "error"]
    /\ UNCHANGED <<players, data_cache, last_consolidation, now, allPc, allResult,
                   nCalls, pass>>
    /\ UNCHANGED <<mergeVars, queryVars, apiVars, newsVars, schedVars>>

\* mutant of the result of refresh_all_agents: all() for any()
AllSucceeded(cs) == \A s \in Sources : cs[s].pc = "returned" /\ cs[s].ret

\* any(isinstance(result, bool) and result for result in results)
AnySucceeded(cs) == \E s \in Sources : cs[s].pc = "returned" /\ cs[s].ret

\* gather(..., return_exceptions=True) is done once every gathered call has ended
RefreshAllReturn ==
    /\ allPc = "gathering"
    /\ \A s \in Sources : calls[s].pc \in {"returned", "raised"}
    /\ allResult' = AnySucceeded(calls)
    /\ allPc' = "returned"
    /\ UNCHANGED <<players, metrics, data_cache, last_consolidation, now, calls,
                   nCalls, pass>>
    /\ UNCHANGED <<mergeVars, queryVars, apiVars, newsVars, schedVars>>

Next ==
    \/ \E source \in Sources : RefreshAgentBegin(source)
    \/ RefreshAllStart(MaxCalls)
    \/ \E c \in CallIds, data \in AllSysBatches : FetchSucceed(c, data)
    \/ \E c \in CallIds : \E exc \in FetchErrors : FetchFail(c, exc)
    \/ RefreshAllReturn

Spec == Init /\ [][Next]_vars

-----------------------------------------------------------------------------
(* Record merges one at a time: the body of consolidate_data's loop applied to *)
(* one record of one source, so that each merge can be observed on its own     *)

\* the value a raw record supplies for a basic field, None when it supplies none
Supplied(source_player, f) ==
    CASE f = "previous_school" ->
           IF TruthyText(source_player.previous_school) THEN source_player.previous_school
           ELSE IF TruthyText(source_player.last_team) THEN source_player.last_team
           ELSE None
      [] f = "destination_school" ->
           IF TruthyText(source_player.destination_school)
           THEN source_player.destination_school
           ELSE IF TruthyText(source_player.new_team) /\ source_player.new_team[1] # NA
           THEN source_player.new_team
           ELSE None
      [] OTHER -> IF TruthyText(source_player[f]) THEN source_player[f] ELSE None

MergeRecord(source, player_data, t) ==
    /\ nMerges < MaxMerges
    /\ t >= now
    /\ LET player_id == GeneratePlayerId(player_data.name[1], player_data.previous_school)
           old == IF player_id \in DOMAIN on3Said THEN on3Said[player_id]
                  ELSE [f \in ScalarFields |-> None]
       IN  /\ players' = ConsolidateRecord(players, source, player_data, t)
           /\ hist' = <<[source |-> source, rec |-> player_data, id |-> player_id,
                         before |-> players]>> \o SubSeq(hist, 1, IF hist = << >> THEN 0 ELSE 1)
           /\ on3Said' =
                IF source = ON3
                THEN Put(on3Said, player_id,
                         [f \in ScalarFields |->
                             IF Supplied(player_data, f) # None
                             THEN Supplied(player_data, f) ELSE old[f]])
                ELSE on3Said
    /\ now' = t
    /\ nMerges' = nMerges + 1
    /\ UNCHANGED <<metrics, data_cache, last_consolidation>>
    /\ UNCHANGED <<callVars, queryVars, apiVars, newsVars, schedVars>>

NextMerge ==
    \E source \in Sources, player_data \in MergeRecords, t \in 0..MaxTime :
        MergeRecord(source, player_data, t)

SpecMerge == Init /\ [][NextMerge]_vars

-----------------------------------------------------------------------------
(* Claims about one record merge *)

\* the last merge, and the player it merged into as it was before and is after
LastMerge == hist[1]
HadPlayerBefore == LastMerge.id \in StoreIds(LastMerge.before)
PlayerBefore == Lookup(LastMerge.before, LastMerge.id)
PlayerAfter == Lookup(players, LastMerge.id)

\* C1: a merge from a source other than ON3 leaves every scalar field that
\* already had a value as it was, whatever the raw record carries for it
C1_NonOverwrite ==
    (hist # << >> /\ LastMerge.source # ON3 /\ HadPlayerBefore) =>
        \A f \in ScalarFields :
            TruthyText(PlayerBefore[f]) => PlayerAfter[f] = PlayerBefore[f]

\* a non-authoritative merge met a set field with a different value in the record
C1_Witness ==
    /\ hist # << >>
    /\ LastMerge.source \in {RIVALS, TWO47}
    /\ HadPlayerBefore
    /\ \E f \in ScalarFields :
           /\ TruthyText(PlayerBefore[f])
           /\ Supplied(LastMerge.rec, f) # None
           /\ Supplied(LastMerge.rec, f) # PlayerBefore[f]

\* C2: a scalar field for which ON3 has supplied a value holds the value ON3
\* supplied last: the ON3 merge overwrote whatever was there, and no merge from
\* another source changed it afterwards
C2_AuthorityOverwrite ==
    \A i \in 1..Len(players) :
        players[i].player_id \in DOMAIN on3Said =>
            \A f \in ScalarFields :
                on3Said[players[i].player_id][f] # None =>
                    players[i][f] = on3Said[players[i].player_id][f]

\* ON3 has just overwritten a value another source had set
C2_Witness ==
    /\ Len(hist) = 2
    /\ hist[2].source # ON3
    /\ LastMerge.source = ON3
    /\ HadPlayerBefore
    /\ \E f \in ScalarFields :
           /\ TruthyText(PlayerBefore[f])
           /\ Supplied(LastMerge.rec, f) # None
           /\ Supplied(LastMerge.rec, f) # PlayerBefore[f]
           /\ PlayerAfter[f] = Supplied(LastMerge.rec, f)

\* a player with the last_updated entry of one source left out
WithoutStamp(player, source) ==
    [player EXCEPT !.last_updated =
        [s \in DOMAIN player.last_updated \ {source} |-> player.last_updated[s]]]

SameRecordTwice ==
    /\ Len(hist) = 2
    /\ hist[1].source = hist[2].source
    /\ hist[1].rec = hist[2].rec

\* C8: merging the record that was merged just before, from the same source,
\* leaves the store as it was but for that source's last_updated
C8_MergeIdempotent ==
    SameRecordTwice =>
        /\ Len(players) = Len(LastMerge.before)
        /\ \A i \in 1..Len(players) :
               WithoutStamp(players[i], LastMerge.source)
                   = WithoutStamp(LastMerge.before[i], LastMerge.source)

\* the repeated record carried a rank, per-source fields and scalar fields, and
\* the clock moved between the two merges
C8_Witness ==
    /\ SameRecordTwice
    /\ LastMerge.rec.rank.kind = "int" /\ LastMerge.rec.rank.val # 0
    /\ LastMerge.rec.stats # None
    /\ PlayerAfter.last_updated[LastMerge.source]
           # PlayerBefore.last_updated[LastMerge.source]

-----------------------------------------------------------------------------
(* Claims about the refresh cycle *)

RECURSIVE SumOfRanks(_, _)
SumOfRanks(r, keys) ==
    IF keys = {} THEN 0
    ELSE LET k == CHOOSE x \in keys : TRUE
         IN  r[k] + SumOfRanks(r, keys \ {k})

\* the mean of every value of a non-empty rankings map, the fraction dropped
EqualWeightMean(r) ==
    LET n == Cardinality(DOMAIN r)
        total == SumOfRanks(r, DOMAIN r)
    IN  CHOOSE q \in -total..total :
            IF total >= 0 THEN q * n <= total /\ total < (q + 1) * n
            ELSE q * n >= total /\ total > (q - 1) * n

\* C3: composite_ranking is None exactly when rankings is empty, and otherwise
\* it is the truncated mean of all the values of rankings, each counted once
C3_CompositeRanking ==
    \A i \in 1..Len(players) :
        /\ players[i].composite_ranking = None <=> DOMAIN players[i].rankings = {}
        /\ DOMAIN players[i].rankings # {} =>
               players[i].composite_ranking = Some(EqualWeightMean(players[i].rankings))

\* a player ranked 5, 9 and 7 by the three sources has composite 7, and a
\* player whose mean has a fraction has it dropped
C3_Witness ==
    /\ \E i \in 1..Len(players) :
           /\ DOMAIN players[i].rankings = Sources
           /\ players[i].rankings[ON3] = 5
           /\ players[i].rankings[RIVALS] = 9
           /\ players[i].rankings[TWO47] = 7
           /\ players[i].composite_ranking = Some(7)
    /\ \E i \in 1..Len(players) :
           /\ DOMAIN players[i].rankings = {RIVALS, TWO47}
           /\ players[i].rankings[RIVALS] = 4
           /\ players[i].rankings[TWO47] = 9
           /\ players[i].composite_ranking = Some(6)

\* the identities of the records in a batch
BatchIds(data) ==
    {GeneratePlayerId(data[i].name[1], data[i].previous_school) :
        i \in {j \in 1..Len(data) : data[j].name # None}}

\* C4: after a consolidation pass the store holds exactly the identities the
\* pass touched, and holds no earlier player that no cached batch contains
C4_GarbageCollection ==
    pass.ran =>
        /\ StoreIds(players) = pass.processed
        /\ \A id \in pass.existing :
               (\A s \in Sources : id \notin BatchIds(data_cache[s])) =>
                   id \notin StoreIds(players)

\* a pass removed a player that was in the store and kept another
C4_Witness ==
    /\ pass.ran
    /\ \E id \in pass.existing :
           /\ \A s \in Sources : id \notin BatchIds(data_cache[s])
           /\ id \notin StoreIds(players)
    /\ players # << >>

C10_RefreshAllResult ==
    /\ allPc = "gathering" => \A s \in Sources : calls[s].pc # "idle"
    /\ allPc = "returned" =>
           /\ \A s \in Sources : calls[s].pc = "returned" /\ calls[s].source = s
           /\ allResult <=> \E s \in Sources : calls[s].fetched = "ok"

\* refresh_all_agents returned true with one source failed
C10_Witness ==
    /\ allPc = "returned"
    /\ allResult
    /\ \E s \in Sources : calls[s].fetched = "error"
    /\ \E s \in Sources : calls[s].fetched = "ok"

\* refresh_all_agents returned false: every gathered refresh failed
C10_WitnessAllFailed ==
    /\ allPc = "returned"
    /\ ~allResult
    /\ \A s \in Sources : calls[s].fetched = "error"

-----------------------------------------------------------------------------
(* The orchestrator serving refresh requests one at a time: single-source  *)
(* refreshes first, then refresh_all_agents as start() and refresh_data    *)
(* call it, up to its return                                               *)

NextAll ==
    \/ allPc = "idle" /\ \E source \in Sources : RefreshAgentBegin(source)
    \/ calls[SINGLE].pc # "fetching" /\ RefreshAllStart(MaxCalls + 1)
    \/ \E c \in CallIds, data \in AllSysBatches : FetchSucceed(c, data)
    \/ \E c \in CallIds, exc \in FetchErrors : FetchFail(c, exc)
    \/ RefreshAllReturn

SpecAll == Init /\ [][NextAll]_vars

-----------------------------------------------------------------------------
(* Claims about refresh_all_agents with a failing source *)

ResultIds == StoreIds(QueryPlayers(players, DefaultQuery))

\* C5: when refresh_all_agents has returned and the fetch of some source
\* raised, every source whose fetch succeeded completed its refresh (it returned
\* true, is READY and has cached its batch), every player of its batch is in the
\* store with the source among its sources, and query_players returns it
C5_IsolatedFailure ==
    (allPc = "returned" /\ \E a \in Sources : calls[a].fetched = "error") =>
        \A b \in Sources :
            calls[b].fetched = "ok" =>
                /\ calls[b].pc = "returned" /\ calls[b].ret
                /\ metrics[b].status = READY
                /\ data_cache[b] = calls[b].data
                /\ \A id \in BatchIds(calls[b].data) :
                       /\ id \in StoreIds(players)
                       /\ \E i \in 1..Len(Lookup(players, id).sources) :
                              Lookup(players, id).sources[i] = b
                       /\ id \in ResultIds

\* ON3 failed, after an earlier success, while RIVALS and 247 succeeded with
\* players to merge
C5_Witness ==
    /\ allPc = "returned"
    /\ calls[ON3].fetched = "error"
    /\ metrics[ON3].refresh_count = 1
    /\ data_cache[ON3] # << >>
    /\ calls[RIVALS].fetched = "ok" /\ calls[RIVALS].data = <<AmyFrom(RIVALS)>>
    /\ calls[TWO47].fetched = "ok" /\ calls[TWO47].data = <<BoFrom(TWO47)>>
    /\ ResultIds = {GeneratePlayerId(Amy, None), GeneratePlayerId(Bo, None)}

-----------------------------------------------------------------------------
(* query_players over stores built by single-source refreshes *)

\* a record that carries a name and a rank only
Ranked(name, rank) == [BareRecord(Some(name)) EXCEPT !.rank = rank]

\* batches whose players end up unranked, ranked apart and ranked alike
QueryBatches ==
    {<< >>,
     <<Ranked(Zed, NoRank)>>,
     <<Ranked(Zed, NoRank), Ranked(Amy, IntRank(10)), Ranked(Bo, IntRank(3))>>,
     <<Ranked(Bo, IntRank(10)), Ranked(Amy, IntRank(10))>>}

\* the queries asked
QueryInputs ==
    {DefaultQuery,
     [DefaultQuery EXCEPT !.limit = Some(2)],
     [DefaultQuery EXCEPT !.source = RIVALS]}

\* query_players(query)
Query(query) ==
    /\ asked' = Some(query)
    /\ result' = QueryPlayers(players, query)
    /\ UNCHANGED <<orchVars, now, callVars, mergeVars, newsVars, schedVars, apiVars>>

NextQuery ==
    \/ \E source \in Sources : RefreshAgentBegin(source)
    \/ \E data \in QueryBatches : FetchReturned(SINGLE, data)
    \/ \E exc \in FetchErrors : FetchFail(SINGLE, exc)
    \/ \E query \in QueryInputs : Query(query)

SpecQuery == Init /\ [][NextQuery]_vars

Unranked(p) == p.composite_ranking = None

\* C6: the list query_players returns is in descending composite_ranking order,
\* every player without a composite ranking comes after every ranked player, and
\* players of equal ranking are in ascending order of name
C6_QueryOrdering ==
    asked # None =>
        \A i, j \in 1..Len(result) :
            i < j =>
                /\ Unranked(result[i]) => Unranked(result[j])
                /\ (~Unranked(result[i]) /\ ~Unranked(result[j])) =>
                       result[i].composite_ranking[1] >= result[j].composite_ranking[1]
                /\ result[i].composite_ranking = result[j].composite_ranking =>
                       ~TextLess(result[j].name, result[i].name)

\* what the sort key of lines 483-488 gives: unranked players first, then
\* descending composite_ranking, ascending name among equals
C6_UnrankedFirst ==
    asked # None =>
        \A i, j \in 1..Len(result) :
            i < j =>
                /\ Unranked(result[j]) => Unranked(result[i])
                /\ (~Unranked(result[i]) /\ ~Unranked(result[j])) =>
                       result[i].composite_ranking[1] >= result[j].composite_ranking[1]
                /\ result[i].composite_ranking = result[j].composite_ranking =>
                       ~TextLess(result[j].name, result[i].name)

\* the store holds Zed (unranked), Amy (10) and Bo (3) and the default query
\* returned them as Zed, Amy, Bo
C6_Witness ==
    /\ asked = Some(DefaultQuery)
    /\ Len(result) = 3
    /\ result[1].name = Zed /\ Unranked(result[1])
    /\ result[2].name = Amy /\ result[2].composite_ranking = Some(10)
    /\ result[3].name = Bo /\ result[3].composite_ranking = Some(3)

-----------------------------------------------------------------------------
(* The news monitor: refresh_all_sources and _post_process_news_items.       *)
(* A confidence score is kept in tenths, a publication date as a day number. *)
(* The scrapers of the repository are placeholders for network fetches; what *)
(* they return is an input here.                                             *)

ESPN == "espn"
TWITTER == "twitter"
\* config.news_sources and config.social_platforms, one of each
NewsSources == {ESPN, TWITTER}

Kentucky == <<"K", "e", "n", "t", "u", "c", "k", "y">>

\* the literals of lines 528-535, the scores in tenths
ConsensusSize == 3
BoostTenths == 1
CapTenths == 10
PenaltyTenths == 2
FloorTenths == 3

\* md5 of "source_type|source_url|player_name": one id per triple
GenerateItemId(source_type, source_url, player_name) ==
    <<source_type, source_url, player_name>>

\* TransferNewsItem(...), verified left at its default
NewsItem(source_type, source_url, player_name, publication_date, previous_school, destination_school, confidence_score) ==
    [id |-> GenerateItemId(source_type, source_url, player_name),
     player_name |-> player_name, source_type |-> source_type,
     source_url |-> source_url, publication_date |-> publication_date,
     event_types |-> << >>, previous_school |-> previous_school,
     destination_school |-> destination_school,
     confidence_score |-> confidence_score, verified |-> FALSE]

\* self.news_items[item.id] = item
StoreItem(items, item) ==
    IF \E i \in 1..Len(items) : items[i].id = item.id
    THEN [i \in 1..Len(items) |-> IF items[i].id = item.id THEN item ELSE items[i]]
    ELSE Append(items, item)

RECURSIVE StoreItems(_, _)
StoreItems(items, batch) ==
    IF batch = << >> THEN items
    ELSE StoreItems(StoreItem(items, Head(batch)), Tail(batch))

\* player_events[player_name]
ItemsOf(items, player_name) == SelectSeq(items, LAMBDA x : x.player_name = player_name)

\* items.sort(key=publication_date, reverse=True): newest first, equal dates in
\* their former order
InsertByDate(sorted, x) ==
    LET older == {j \in 1..Len(sorted) : sorted[j].publication_date < x.publication_date}
        at == IF older = {} THEN Len(sorted) + 1
              ELSE CHOOSE j \in older : \A k \in older : j <= k
    IN  SubSeq(sorted, 1, at - 1) \o <<x>> \o SubSeq(sorted, at, Len(sorted))

RECURSIVE SortNewestFirst(_, _)
SortNewestFirst(list, sorted) ==
    IF list = << >> THEN sorted
    ELSE SortNewestFirst(Tail(list), InsertByDate(sorted, Head(list)))

\* the schools counted for one field, in the order the loop meets them
Mentions(items, f) ==
    LET set == SelectSeq(items, LAMBDA x : TruthyText(x[f]))
    IN  [i \in 1..Len(set) |-> set[i][f][1]]

CountOf(schools, v) == Cardinality({i \in 1..Len(schools) : schools[i] = v})

\* max(counts.items(), key=count)[0] if counts else None: the first key, in
\* insertion order, among those of greatest count
MostCommon(schools) ==
    IF schools = << >> THEN None
    ELSE LET best == {i \in 1..Len(schools) :
                         \A j \in 1..Len(schools) :
                             CountOf(schools, schools[i]) >= CountOf(schools, schools[j])}
         IN  Some(schools[CHOOSE i \in best : \A k \in best : i <= k])

Min(a, b) == IF a < b THEN a ELSE b
Max(a, b) == IF a > b THEN a ELSE b

\* lines 520-534 for one item of a player with more than one item
PostProcessItem(item, items) ==
    LET sorted == SortNewestFirst(items, << >>)
        most_common_prev == MostCommon(Mentions(sorted, "previous_school"))
        most_common_dest == MostCommon(Mentions(sorted, "destination_school"))
        consistent_prev ==
            most_common_prev # None /\ item.previous_school = most_common_prev
        consistent_dest ==
            most_common_dest # None /\ item.destination_school = most_common_dest
        boosted ==
            IF consistent_prev /\ consistent_dest /\ Len(items) >= ConsensusSize
            THEN [item EXCEPT !.verified = TRUE,
                              !.confidence_score = Min(CapTenths, @ + BoostTenths)]
            ELSE item
        inconsistent ==
            \/ /\ most_common_prev # None
               /\ TruthyText(item.previous_school)
               /\ item.previous_school # most_common_prev
            \/ /\ most_common_dest # None
               /\ TruthyText(item.destination_school)
               /\ item.destination_school # most_common_dest
    IN  IF inconsistent
        THEN [boosted EXCEPT !.confidence_score = Max(FloorTenths, @ - PenaltyTenths)]
        ELSE boosted

\* _post_process_news_items: the items are updated in place
PostProcessNewsItems(items) ==
    [i \in 1..Len(items) |->
        LET group == ItemsOf(items, items[i].player_name)
        IN  IF Len(group) > 1 THEN PostProcessItem(items[i], group) ELSE items[i]]

\* what the scrapers of each source return
U1 == <<"u", "1">>
U2 == <<"u", "2">>

NewsBatches(source) ==
    IF source = ESPN
    THEN {<< >>,
          <<NewsItem(ESPN, U1, Amy, 2, None, Some(Duke), 7),
            NewsItem(ESPN, U2, Amy, 1, None, Some(Duke), 10)>>,
          <<NewsItem(ESPN, U1, Amy, 2, Some(UK), Some(Duke), 7),
            NewsItem(ESPN, U2, Amy, 1, Some(UK), Some(Duke), 10)>>,
          <<NewsItem(ESPN, U1, Amy, 2, Some(UK), Some(Duke), 9)>>}
    ELSE {<< >>,
          <<NewsItem(TWITTER, U1, Amy, 3, None, Some(Kentucky), 8)>>,
          <<NewsItem(TWITTER, U1, Amy, 3, Some(UK), Some(Kentucky), 4)>>,
          <<NewsItem(TWITTER, U1, Amy, 3, Some(UK), Some(Duke), 6)>>,
          <<NewsItem(TWITTER, U1, Amy, 3, None, Some(Kentucky), 2)>>,
          <<NewsItem(TWITTER, U2, Bo, 1, None, Some(Duke), 9)>>}

AllNewsBatches == UNION {NewsBatches(source) : source \in NewsSources}

\* refresh_all_sources up to the await of gather
NewsRefreshStart ==
    /\ newsPc = "idle"
    /\ nNews < MaxNews
    /\ newsPc' = "gathering"
    /\ newsPending' = NewsSources
    /\ nNews' = nNews + 1
    /\ UNCHANGED <<news_items, newsPre>>
    /\ UNCHANGED <<orchVars, now, callVars, mergeVars, queryVars, apiVars, schedVars>>

\* refresh_news_source / refresh_social_platform: the scraper returned items
NewsSourceReturn(source, items) ==
    /\ source \in newsPending
    /\ items \in NewsBatches(source)
    /\ news_items' = StoreItems(news_items, items)
    /\ newsPending' = newsPending \ {source}
    /\ UNCHANGED <<newsPc, newsPre, nNews>>
    /\ UNCHANGED <<orchVars, now, callVars, mergeVars, queryVars, apiVars, schedVars>>

\* the scraper raised: the except clause returns 0
NewsSourceFail(source) ==
    /\ source \in newsPending
    /\ newsPending' = newsPending \ {source}
    /\ UNCHANGED <<news_items, newsPc, newsPre, nNews>>
    /\ UNCHANGED <<orchVars, now, callVars, mergeVars, queryVars, apiVars, schedVars>>

\* gather is done: _post_process_news_items, then the return
NewsRefreshFinish ==
    /\ newsPc = "gathering"
    /\ newsPending = {}
    /\ newsPre' = news_items
    /\ news_items' = PostProcessNewsItems(news_items)
    /\ newsPc' = "idle"
    /\ UNCHANGED <<newsPending, nNews>>
    /\ UNCHANGED <<orchVars, now, callVars, mergeVars, queryVars, apiVars, schedVars>>

NextNews ==
    \/ NewsRefreshStart
    \/ \E source \in NewsSources, items \in AllNewsBatches : NewsSourceReturn(source, items)
    \/ \E source \in NewsSources : NewsSourceFail(source)
    \/ NewsRefreshFinish

SpecNews == Init /\ [][NextNews]_vars

\* the value of field f held by more of the items than any other value
IsMajority(items, f, v) ==
    LET schools == Mentions(items, f)
    IN  /\ CountOf(schools, v) > 0
        /\ \A i \in 1..Len(schools) :
               schools[i] # v => CountOf(schools, v) > CountOf(schools, schools[i])

SchoolFields == {"previous_school", "destination_school"}

\* the item holds the majority value of every field that has one
AgreesWithMajority(item, items) ==
    /\ \E f \in SchoolFields : \E i \in 1..Len(items) :
           TruthyText(items[i][f]) /\ IsMajority(items, f, items[i][f][1])
    /\ \A f \in SchoolFields : \A i \in 1..Len(items) :
           (TruthyText(items[i][f]) /\ IsMajority(items, f, items[i][f][1])) =>
               item[f] = items[i][f]

\* the item holds, for some field, a value other than its majority value
DisagreesWithMajority(item, items) ==
    \E f \in SchoolFields : \E i \in 1..Len(items) :
        /\ TruthyText(items[i][f]) /\ IsMajority(items, f, items[i][f][1])
        /\ TruthyText(item[f]) /\ item[f] # items[i][f]

\* C7: once refresh_all_sources has post-processed the items, for every player
\* with 3 or more items each item that agrees with the majority school values
\* is verified and has its confidence raised by 0.1, at most to 1.0, and each
\* item that disagrees has its confidence lowered by 0.2, at least to 0.3
C7_ConsensusBoost ==
    (newsPc = "idle" /\ nNews > 0) =>
        \A i \in 1..Len(newsPre) :
            LET items == ItemsOf(newsPre, newsPre[i].player_name)
            IN  Len(items) >= ConsensusSize =>
                    /\ AgreesWithMajority(newsPre[i], items) =>
                           /\ news_items[i].verified
                           /\ news_items[i].confidence_score =
                                  Min(CapTenths, newsPre[i].confidence_score + BoostTenths)
                    /\ DisagreesWithMajority(newsPre[i], items) =>
                           news_items[i].confidence_score =
                               Max(FloorTenths, newsPre[i].confidence_score - PenaltyTenths)

\* three items for Amy with destinations Duke, Duke, Kentucky and no previous
\* school were post-processed: the Duke items are left as they were, the
\* Kentucky item is penalised
C7_Witness ==
    /\ newsPc = "idle" /\ nNews > 0
    /\ Len(newsPre) = 3
    /\ \A i \in 1..3 : newsPre[i].player_name = Amy /\ newsPre[i].previous_school = None
    /\ newsPre[1].destination_school = Some(Duke)
    /\ newsPre[2].destination_school = Some(Duke)
    /\ newsPre[3].destination_school = Some(Kentucky)
    /\ news_items[1] = newsPre[1] /\ news_items[2] = newsPre[2]
    /\ news_items[3].confidence_score = newsPre[3].confidence_score - PenaltyTenths

-----------------------------------------------------------------------------
(* Claims about what a failure of one source does to the others *)

\* C12: when some source has had a failed refresh, every player of the batch
\* cached for another source that has succeeded at least once and never failed
\* is in the store
C12_NoLossForOtherSources ==
    \A a, b \in Sources :
        (/\ a # b
         /\ metrics[a].error_count > 0
         /\ metrics[b].error_count = 0
         /\ metrics[b].refresh_count > 0) =>
            BatchIds(data_cache[b]) \subseteq StoreIds(players)

\* ON3 failed; RIVALS, refreshed twice without a failure, and 247 have their
\* players in the store
C12_Witness ==
    /\ metrics[ON3].error_count = 1
    /\ metrics[RIVALS].refresh_count = 2 /\ metrics[RIVALS].error_count = 0
    /\ data_cache[RIVALS] = <<BoFrom(RIVALS)>>
    /\ metrics[TWO47].refresh_count = 1
    /\ data_cache[TWO47] = <<AmyFrom(TWO47)>>
    /\ StoreIds(players) = {GeneratePlayerId(Bo, None), GeneratePlayerId(Amy, None)}

-----------------------------------------------------------------------------
(* query_players with filters and limits, over stores built by single-source *)
(* refreshes of records that carry the filtered fields                       *)

InPortal == <<"I", "n">>

\* a record with position, schools, status, points per game and rank
FilterRecord(name, position, last_team, new_team, status, ppg, rank) ==
    [BareRecord(Some(name)) EXCEPT
        !.position = position, !.last_team = last_team, !.new_team = new_team,
        !.status = status, !.stats = Some([ppg |-> ppg]), !.rank = rank]

FilterBatches ==
    {<< >>,
     <<FilterRecord(Amy, Some(PG), Some(Duke), None, Some(InPortal), Some(12), IntRank(10)),
       FilterRecord(Bo, Some(SG), None, Some(UK), None, Some(0), IntRank(3)),
       Ranked(Zed, NoRank)>>,
     <<FilterRecord(Bo, Some(PG), None, None, None, Some(5), IntRank(7))>>}

\* source=None in a PortalQuery; the field holds a DataSource otherwise, so
\* the absent value is a tag here and not the empty sequence
NoSource == "None"

\* a query with one filter set, without a limit
OneFilter(f, v) == [DefaultQuery EXCEPT ![f] = v, !.limit = None]

FilterQueries ==
    {DefaultQuery,
     OneFilter("source", ON3), OneFilter("source", NoSource),
     OneFilter("position", Some(<<"g">>)), OneFilter("position", Some(<<"p", "g">>)),
     OneFilter("school", Some(<<"k">>)), OneFilter("school", Some(<<"d", "U">>)),
     OneFilter("status", Some(<<"i", "N">>)),
     OneFilter("min_ppg", Some(0)), OneFilter("min_ppg", Some(5)),
     OneFilter("min_ranking", Some(5)), OneFilter("max_ranking", Some(7)),
     [DefaultQuery EXCEPT !.limit = Some(1)],
     [DefaultQuery EXCEPT !.limit = Some(2)],
     [DefaultQuery EXCEPT !.limit = Some(0)],
     [DefaultQuery EXCEPT !.position = Some(<<"g">>), !.min_ppg = Some(5),
                          !.limit = Some(1)]}

\* one refresh fewer than MaxCalls: the queries multiply the states
NextFilter ==
    \/ nCalls + 1 < MaxCalls /\ \E source \in Sources : RefreshAgentBegin(source)
    \/ \E data \in FilterBatches : FetchReturned(SINGLE, data)
    \/ \E exc \in FetchErrors : FetchFail(SINGLE, exc)
    \/ \E query \in FilterQueries : Query(query)

SpecFilter == Init /\ [][NextFilter]_vars

\* a step in which query_players returned
QueryReturned == asked' # asked \/ result' # result

\* the store players the filters of the query let through, in store order
Passing(query) == SelectSeq(players, LAMBDA p : PassesFilters(p, query))

InResult(p, list) == \E i \in 1..Len(list) : list[i] = p

\* C13: with a positive limit, query_players returns the first limit elements
\* of the filtered and sorted list: the result is sorted, holds only players
\* that pass the filters, has the length of that list or the limit, whichever
\* is less, and no passing player left out sorts before a player it holds
C13_QueryLimit ==
    [][(QueryReturned /\ asked'[1].limit # None /\ asked'[1].limit[1] > 0) =>
          LET query == asked'[1]
              limit == query.limit[1]
              passing == Passing(query)
          IN  /\ Len(result') = Min(limit, Len(passing))
              /\ \A i \in 1..Len(result') : InResult(result'[i], passing)
              /\ \A i, j \in 1..Len(result') : i < j => ~KeyLess(result'[j], result'[i])
              /\ \A k \in 1..Len(passing) :
                     ~InResult(passing[k], result') =>
                         \A i \in 1..Len(result') : ~KeyLess(passing[k], result'[i])
      ]_vars

\* a limit of 1 with filters that let two of three players through: the one
\* returned is the better ranked of the two, which is not first in the store
C13_Witness ==
    /\ asked # None /\ asked[1].limit = Some(1) /\ asked[1].min_ppg # None
    /\ Len(players) = 3
    /\ Len(Passing(asked[1])) = 2
    /\ Len(result) = 1
    /\ result[1] = Passing(asked[1])[2]

\* what each supplied filter of a query asks of a player
IsSupplied(text) == text # None /\ text[1] # << >>

HoldsText(p_text, text) == p_text # None /\ Contains(Lower(p_text[1]), Lower(text[1]))

Satisfies(p, query) ==
    /\ query.source \in Sources => \E i \in 1..Len(p.sources) : p.sources[i] = query.source
    /\ IsSupplied(query.position) => HoldsText(p.position, query.position)
    /\ IsSupplied(query.school) =>
           \/ HoldsText(p.previous_school, query.school)
           \/ HoldsText(p.destination_school, query.school)
    /\ IsSupplied(query.status) => HoldsText(p.status, query.status)
    /\ query.min_ppg # None =>
           \E s \in DOMAIN p.stats :
               p.stats[s].ppg # None /\ p.stats[s].ppg[1] >= query.min_ppg[1]
    /\ query.min_ranking # None =>
           p.composite_ranking # None /\ p.composite_ranking[1] >= query.min_ranking[1]
    /\ query.max_ranking # None =>
           p.composite_ranking # None /\ p.composite_ranking[1] <= query.max_ranking[1]

\* C14: a query without a limit returns exactly the store players that satisfy
\* every filter it supplies: the source is among the player's sources, the
\* position, school (previous or destination) and status contain the text
\* asked for, some source's points per game is at least min_ppg, and the
\* composite ranking lies in [min_ranking, max_ranking]
C14_QueryFilters ==
    [][(QueryReturned /\ asked'[1].limit = None) =>
          /\ \A i \in 1..Len(result') :
                 InResult(result'[i], players) /\ Satisfies(result'[i], asked'[1])
          /\ \A k \in 1..Len(players) :
                 Satisfies(players[k], asked'[1]) => InResult(players[k], result')
      ]_vars

\* min_ppg=0 was asked of a store in which Bo averages 0 points: Bo is left out
C14_Witness ==
    /\ asked = Some(OneFilter("min_ppg", Some(0)))
    /\ \E k \in 1..Len(players) :
           /\ players[k].name = Bo
           /\ \E s \in DOMAIN players[k].stats : players[k].stats[s].ppg = Some(0)
           /\ ~InResult(players[k], result)

-----------------------------------------------------------------------------
(* Claims about the identity of two records merged one after the other *)

Normalized(text) == RemoveSpaces(Lower(text))

\* the previous school a raw record makes known, under either of its keys
KnownSchool(rec) == Supplied(rec, "previous_school")

SameNameAndSchool(r1, r2) ==
    /\ Normalized(r1.name[1]) = Normalized(r2.name[1])
    /\ \/ KnownSchool(r1) = None /\ KnownSchool(r2) = None
       \/ /\ KnownSchool(r1) # None /\ KnownSchool(r2) # None
          /\ Normalized(KnownSchool(r1)[1]) = Normalized(KnownSchool(r2)[1])

SameNameOtherSchool(r1, r2) ==
    /\ r1.name = r2.name
    /\ KnownSchool(r1) # None /\ KnownSchool(r2) # None
    /\ Normalized(KnownSchool(r1)[1]) # Normalized(KnownSchool(r2)[1])

RecordsWithId(id) == {i \in 1..Len(players) : players[i].player_id = id}

HasSource(p, source) == \E i \in 1..Len(p.sources) : p.sources[i] = source

\* C15: two records whose names and previous schools agree up to letter case
\* and spaces have one identity and are merged into one consolidated record
\* that lists both sources; two records of one name whose known previous
\* schools differ have two identities and two consolidated records
C15_IdentityResolution ==
    Len(hist) = 2 =>
        LET first == hist[2]
            second == hist[1]
        IN  /\ SameNameAndSchool(first.rec, second.rec) =>
                   /\ first.id = second.id
                   /\ Cardinality(RecordsWithId(first.id)) = 1
                   /\ HasSource(Lookup(players, first.id), first.source)
                   /\ HasSource(Lookup(players, first.id), second.source)
            /\ SameNameOtherSchool(first.rec, second.rec) =>
                   /\ first.id # second.id
                   /\ Cardinality(RecordsWithId(first.id)) = 1
                   /\ Cardinality(RecordsWithId(second.id)) = 1

\* two records for Amy, one with last_team Duke and one with last_team U K,
\* were merged into the one record "amy"
C15_Witness ==
    /\ Len(hist) = 2
    /\ KnownSchool(hist[2].rec) = Some(Duke) /\ hist[2].rec.previous_school = None
    /\ KnownSchool(hist[1].rec) = Some(UK) /\ hist[1].rec.previous_school = None
    /\ StoreIds(players) = {Normalized(Amy)}

-----------------------------------------------------------------------------
(* Claims about a source other than ON3 filling an empty field *)

ValueBefore(f) == IF HadPlayerBefore THEN PlayerBefore[f] ELSE None

\* C18: when a source other than ON3 merges a record that supplies a value for
\* a scalar field the consolidated player has no value for, the field holds
\* that value afterwards, whether or not other scalar fields are set
C18_GapFilling ==
    (hist # << >> /\ LastMerge.source # ON3) =>
        \A f \in ScalarFields :
            (~TruthyText(ValueBefore(f)) /\ Supplied(LastMerge.rec, f) # None) =>
                PlayerAfter[f] = Supplied(LastMerge.rec, f)

\* a player with a position and no status was merged with a record from
\* RIVALS that supplies a status: the status is still empty
C18_Witness ==
    /\ hist # << >> /\ LastMerge.source = RIVALS /\ HadPlayerBefore
    /\ TruthyText(PlayerBefore.position) /\ PlayerBefore.status = None
    /\ Supplied(LastMerge.rec, "status") # None
    /\ PlayerAfter.status = None

-----------------------------------------------------------------------------
(* Single-source refreshes whose batches may hold a record without a name *)

\* a raw record that lacks the key "name"
Nameless == [BareRecord(None) EXCEPT !.position = Some(PG)]

\* the batches of a source with a nameless record first, in the middle or last
MalformedBatches(source) ==
    {<<AmyFrom(source), BoFrom(source)>>,
     <<AmyFrom(source), Nameless>>,
     <<Nameless, BoFrom(source)>>,
     <<AmyFrom(source), Nameless, BoFrom(source)>>}

NextMalformed ==
    \/ \E source \in Sources : RefreshAgentBegin(source)
    \/ \E data \in MalformedBatches(calls[SINGLE].source) : FetchReturned(SINGLE, data)
    \/ \E exc \in FetchErrors : FetchFail(SINGLE, exc)

SpecMalformed == Init /\ [][NextMalformed]_vars

\* a refresh of one source has just returned the batch and consolidated
BatchConsolidated ==
    calls[SINGLE].pc = "fetching" /\ calls'[SINGLE].pc = "returned" /\ calls'[SINGLE].fetched = "ok"

HasNameless(data) == \E i \in 1..Len(data) : data[i].name = None

\* C19: when a batch holds a record without a name, every record of the batch
\* that has a name, those after the nameless one included, is in the store when
\* the pass that consolidates the batch has ended
C19_MalformedRecord ==
    [][(BatchConsolidated /\ HasNameless(calls'[SINGLE].data)) =>
           \A i \in 1..Len(calls'[SINGLE].data) :
               LET rec == calls'[SINGLE].data[i]
               IN  rec.name # None =>
                       GeneratePlayerId(rec.name[1], rec.previous_school) \in StoreIds(players')]_vars

\* a batch with a nameless record between two named ones was consolidated and
\* the store lacks the player of the record after the nameless one
C19_Witness ==
    /\ calls[SINGLE].pc = "returned" /\ calls[SINGLE].fetched = "ok"
    /\ Len(calls[SINGLE].data) = 3
    /\ calls[SINGLE].data[2].name = None
    /\ data_cache[calls[SINGLE].source] = calls[SINGLE].data
    /\ StoreIds(players) = {GeneratePlayerId(Amy, None)}

-----------------------------------------------------------------------------
(* start(), the per-source _schedule_refreshes tasks and stop(); the clock *)
(* counts seconds                                                          *)

\* the refresh_interval the orchestrator was constructed with
RefreshInterval == 10
\* "Stagger by 10 seconds per source"
Stagger == 10
\* the sleep of the task's except clause, line 221
CoolDown == 60
\* the clock stops at MaxClock; the scheduled refreshes begun are at most MaxCycles
MaxClock == 20
MaxCycles == 1

\* the batch a fetch returns while the tasks run
SchedBatch(source) == <<AmyFrom(source)>>

\* list(self.agents.keys()).index(source)
SourceIndex(source) == (CHOOSE i \in 1..Len(AgentOrder) : AgentOrder[i] = source) - 1

\* mutant of the wait: the interval counts from the attempt, not from the last success
WaitFullInterval(m, source, t) == RefreshInterval

\* lines 197-208: the seconds the task sleeps before its next refresh
WaitTime(m, source, t) ==
    IF m.last_successful_refresh # None
    THEN Max(0, RefreshInterval - (t - m.last_successful_refresh[1]))
    ELSE SourceIndex(source) * Stagger

\* the task of a source at its sleep with the wait computed from the metrics m
Sleeping(m, source, t) ==
    [pc |-> "sleeping", wake |-> t + WaitTime(m, source, t), start |-> 0]

\* the tasks run while stop() has not cancelled them
TasksLive == stopPc \in {"running", "news_cancelled"}

\* start() after its refresh_all_agents returned: the tasks are created and each
\* runs up to its first sleep
StartTasks ==
    /\ allPc = "returned"
    /\ \A s \in Sources : tasks[s].pc = "none"
    /\ tasks' = [s \in Sources |-> Sleeping(metrics[s], s, now)]
    /\ nCalls' = 0
    /\ UNCHANGED <<orchVars, now, calls, allPc, allResult, pass, stopPc>>
    /\ UNCHANGED <<mergeVars, queryVars, apiVars, newsVars>>

\* time passes while the tasks run
Tick ==
    /\ TasksLive
    /\ \A s \in Sources : tasks[s].pc # "none"
    /\ now + Stagger <= MaxClock
    /\ now' = now + Stagger
    /\ UNCHANGED <<orchVars, callVars, mergeVars, queryVars, apiVars, newsVars, schedVars>>

\* the sleep of the task is over: refresh_agent up to the await of scrape_players
SchedWake(s) ==
    /\ TasksLive
    /\ tasks[s].pc = "sleeping"
    /\ now >= tasks[s].wake
    /\ nCalls < MaxCycles
    /\ metrics' = [metrics EXCEPT ![s] = MetricsOnBegin(@, now)]
    /\ tasks' = [tasks EXCEPT ![s].pc = "fetching", ![s].start = now]
    /\ nCalls' = nCalls + 1
    /\ UNCHANGED <<players, data_cache, last_consolidation, now, calls, allPc,
                   allResult, pass, stopPc>>
    /\ UNCHANGED <<mergeVars, queryVars, apiVars, newsVars>>

\* the fetch of the task's refresh_agent returned: lines 239-262, then the task
\* goes round its loop to the next sleep
SchedFetchReturned(s) ==
    /\ TasksLive
    /\ tasks[s].pc = "fetching"
    /\ LET data == SchedBatch(s)
           m == [metrics EXCEPT ![s] = MetricsOnSuccess(@, data, tasks[s].start, now)]
           caches == [data_cache EXCEPT ![s] = data]
           done == ConsolidateData(players, caches, m, now)
       IN  /\ metrics' = m
           /\ data_cache' = caches
           /\ players' = done.store
           /\ pass' = [ran |-> TRUE, existing |-> done.existing,
                       processed |-> done.processed]
           /\ last_consolidation' = Some(now)
           /\ tasks' = [tasks EXCEPT ![s] = Sleeping(m[s], s, now)]
    /\ UNCHANGED <<now, calls, allPc, allResult, nCalls, stopPc>>
    /\ UNCHANGED <<mergeVars, queryVars, apiVars, newsVars>>

\* the fetch of the task's refresh_agent raised: refresh_agent returns False when
\* its except clause catches the error, and the task goes round its loop; an
\* error that passes through reaches the except clause of the task
SchedFetchFail(s, exc) ==
    /\ TasksLive
    /\ tasks[s].pc = "fetching"
    /\ exc \in FetchErrors
    /\ IF CaughtByRefreshAgent(exc)
       THEN LET m == [metrics EXCEPT ![s] = MetricsOnFailure(@)]
            IN  /\ metrics' = m
                /\ tasks' = [tasks EXCEPT ![s] = Sleeping(m[s], s, now)]
       ELSE /\ metrics' = metrics
            /\ tasks' = [tasks EXCEPT ![s] = [pc |-> "sleeping", wake |-> now + CoolDown,
                                              start |-> 0]]
    /\ UNCHANGED <<players, data_cache, last_consolidation, now, calls, allPc,
                   allResult, nCalls, pass, stopPc>>
    /\ UNCHANGED <<mergeVars, queryVars, apiVars, newsVars>>

\* TransferPortalOrchestrator.stop up to its await: every task is cancelled
Stop ==
    /\ stopPc = "running"
    /\ \A s \in Sources : tasks[s].pc # "none"
    /\ stopPc' = "cancelled"
    /\ UNCHANGED <<orchVars, now, callVars, mergeVars, queryVars, apiVars, newsVars, tasks>>

\* NewsEnrichedOrchestrator.stop up to "await self.news_refresh_task"
StopEnriched ==
    /\ stopPc = "running"
    /\ \A s \in Sources : tasks[s].pc # "none"
    /\ stopPc' = "news_cancelled"
    /\ UNCHANGED <<orchVars, now, callVars, mergeVars, queryVars, apiVars, newsVars, tasks>>

\* the news task has ended: NewsEnrichedOrchestrator.stop goes on to
\* super().stop(), which cancels every task
StopSuper ==
    /\ stopPc = "news_cancelled"
    /\ stopPc' = "cancelled"
    /\ UNCHANGED <<orchVars, now, callVars, mergeVars, queryVars, apiVars, newsVars, tasks>>

\* CancelledError is raised in the task at the await it stands at; out of
\* refresh_agent it passes the "except Exception" and the task breaks its loop
TaskCancelled(s) ==
    /\ stopPc = "cancelled"
    /\ tasks[s].pc \in {"sleeping", "fetching"}
    /\ tasks' = [tasks EXCEPT ![s].pc = "done"]
    /\ UNCHANGED <<orchVars, now, callVars, mergeVars, queryVars, apiVars, newsVars, stopPc>>

\* the gather of stop() is done: stop() returns
StopReturn ==
    /\ stopPc = "cancelled"
    /\ \A s \in Sources : tasks[s].pc = "done"
    /\ stopPc' = "returned"
    /\ UNCHANGED <<orchVars, now, callVars, mergeVars, queryVars, apiVars, newsVars, tasks>>

\* the sources a manual refresh is asked for
ManualSources == {ON3}

\* POST /portal/refresh for one source while the server is up, once
ManualRefresh(source) ==
    /\ stopPc = "running"
    /\ \A s \in Sources : tasks[s].pc # "none"
    /\ calls[SINGLE].pc = "idle"
    /\ RefreshAgentBegin(source)

NextSched ==
    \/ allPc = "idle" /\ RefreshAllStart(MaxCalls)
    \/ \E s \in Sources, exc \in FetchErrors : allPc = "gathering" /\ FetchFail(s, exc)
    \/ \E s \in Sources : allPc = "gathering" /\ FetchReturned(s, SchedBatch(s))
    \/ \A s \in Sources : tasks[s].pc = "none" /\ RefreshAllReturn
    \/ StartTasks
    \/ Tick
    \/ \E s \in Sources : SchedWake(s)
    \/ \E s \in Sources : SchedFetchReturned(s)
    \/ \E s \in Sources, exc \in FetchErrors : SchedFetchFail(s, exc)
    \/ \E source \in ManualSources : ManualRefresh(source)
    \/ FetchReturned(SINGLE, SchedBatch(calls[SINGLE].source))
    \/ \E exc \in FetchErrors : FetchFail(SINGLE, exc)
    \/ Stop
    \/ StopEnriched
    \/ StopSuper
    \/ \E s \in Sources : TaskCancelled(s)
    \/ StopReturn

SpecSched == Init /\ [][NextSched]_vars

-----------------------------------------------------------------------------
(* Claims about the status of a source *)

LifecycleSteps ==
    {<<INACTIVE, RUNNING>>, <<READY, RUNNING>>, <<ERROR, RUNNING>>,
     <<RUNNING, READY>>, <<RUNNING, ERROR>>}

\* C11: the status of every source starts INACTIVE and every change of it,
\* whatever the interleaving of the scheduled and the manual refreshes, is one of
\* INACTIVE->RUNNING, READY->RUNNING, ERROR->RUNNING, RUNNING->READY and
\* RUNNING->ERROR
C11_SourceLifecycle ==
    /\ \A s \in Sources : metrics[s].status = INACTIVE
    /\ [][\A s \in Sources :
             metrics'[s].status # metrics[s].status =>
                 <<metrics[s].status, metrics'[s].status>> \in LifecycleSteps]_vars

\* a manual refresh of a source began while the task of that source was at its
\* fetch, and the source is READY: one of the two fetches has returned and the
\* other is still in flight
C11_Witness ==
    \E s \in Sources :
        /\ metrics[s].status = READY
        /\ tasks[s].pc = "fetching"
        /\ calls[SINGLE].source = s
        /\ calls[SINGLE].pc = "returned" /\ calls[SINGLE].fetched = "ok"

-----------------------------------------------------------------------------
(* Claims about stop() *)

\* C16: once stop() has been called, the only step a per-source task takes is
\* to end at the await it stands at, so no task begins or completes a refresh,
\* and when stop() has returned every task has ended
C16_Cancellation ==
    /\ [][stopPc # "running" =>
             \A s \in Sources : tasks'[s] # tasks[s] => tasks'[s].pc = "done"]_vars
    /\ [](stopPc = "returned" => \A s \in Sources : tasks[s].pc = "done")

-----------------------------------------------------------------------------
(* Claims about the wait after a failed scheduled refresh *)

\* C20: when the fetch of a scheduled refresh fails, the task of the source
\* sleeps at least the 60 seconds of the cool-down before its next attempt
C20_CoolDownAfterFailure ==
    [][\A s \in Sources :
           (/\ tasks[s].pc = "fetching"
            /\ tasks'[s].pc = "sleeping"
            /\ metrics'[s].error_count > metrics[s].error_count) =>
               tasks'[s].wake >= now + CoolDown]_vars

\* the scheduled refresh of ON3, which never succeeded, failed and the task
\* sleeps for zero seconds before the next attempt
C20_Witness ==
    /\ tasks[ON3].pc = "sleeping" /\ tasks[ON3].wake = now
    /\ metrics[ON3].status = ERROR
    /\ metrics[ON3].error_count = 2
    /\ metrics[ON3].last_successful_refresh = None

-----------------------------------------------------------------------------
(* The enrichment of the store from the news: query_news_items and *)
(* _integrate_news_data                                            *)

PORTAL_ENTRY == "portal_entry"
COMMITMENT == "commitment"
InPortalStatus == <<"i", "n", " ", "p", "o", "r", "t", "a", "l">>
\* the default of days_back
DaysBack == 7
\* the thresholds of _integrate_news_data, in tenths
UpdateTenths == 7
CreateTenths == 8

\* mutant of the membership test: every event type is found
HasAlways(list, x) == TRUE

Has(list, x) == \E i \in 1..Len(list) : list[i] = x

\* items.sort(key=(publication_date, confidence_score), reverse=True): equal
\* keys stay in their former order
RECURSIVE SortByDateAndScore(_, _)
SortByDateAndScore(list, sorted) ==
    IF list = << >> THEN sorted
    ELSE LET x == Head(list)
             less == {j \in 1..Len(sorted) :
                         \/ sorted[j].publication_date < x.publication_date
                         \/ /\ sorted[j].publication_date = x.publication_date
                            /\ sorted[j].confidence_score < x.confidence_score}
             at == IF less = {} THEN Len(sorted) + 1
                   ELSE CHOOSE j \in less : \A k \in less : j <= k
         IN  SortByDateAndScore(Tail(list),
                 SubSeq(sorted, 1, at - 1) \o <<x>> \o SubSeq(sorted, at, Len(sorted)))

\* query_news_items(player_name=..., days_back=..., limit=...) on the day today,
\* the other filters at their defaults
QueryNewsItems(items, player_name, days_back, limit, today) ==
    LET named == IF player_name # << >>
                 THEN SelectSeq(items, LAMBDA x : Contains(Lower(x.player_name), Lower(player_name)))
                 ELSE items
        recent == SelectSeq(named, LAMBDA x : x.publication_date >= today - days_back)
        sorted == SortByDateAndScore(recent, << >>)
    IN  IF limit > 0 THEN SubSeq(sorted, 1, Min(limit, Len(sorted))) ELSE sorted

\* lines 164-176: the loop over the news items of one player from item i on
RECURSIVE ApplyNews(_, _, _)
ApplyNews(player, news, i) ==
    IF i > Len(news) THEN player
    ELSE LET item == news[i]
             p1 == IF /\ item.confidence_score >= UpdateTenths
                      /\ ~TruthyText(player.destination_school)
                      /\ TruthyText(item.destination_school)
                   THEN [player EXCEPT !.destination_school = item.destination_school]
                   ELSE player
             p2 == IF ~TruthyText(p1.previous_school) /\ TruthyText(item.previous_school)
                   THEN [p1 EXCEPT !.previous_school = item.previous_school]
                   ELSE p1
         IN  ApplyNews(IF Has(item.event_types, COMMITMENT) \/ Has(item.event_types, PORTAL_ENTRY)
                       THEN p2 ELSE player,
                       news, i + 1)

\* lines 178-224: the loop over the names of the news from item i on, a name
\* being met at its first item
RECURSIVE AddFromNews(_, _, _)
AddFromNews(store, items, i) ==
    IF i > Len(items) THEN store
    ELSE LET name == items[i].player_name
             portal == SelectSeq(ItemsOf(items, name), LAMBDA x : Has(x.event_types, PORTAL_ENTRY))
             top == {j \in 1..Len(portal) :
                        \A k \in 1..Len(portal) :
                            portal[k].confidence_score <= portal[j].confidence_score}
             best == portal[CHOOSE j \in top : \A k \in top : j <= k]
             player_id == GeneratePlayerId(best.player_name, best.previous_school)
             player == [NewPlayer(player_id, best.player_name, ALL) EXCEPT
                           !.previous_school = best.previous_school,
                           !.destination_school = best.destination_school,
                           !.status = Some(InPortalStatus)]
             at == IndexOf(store, player_id)
         IN  IF \/ \E j \in 1..(i - 1) : items[j].player_name = name
                \/ \E k \in 1..Len(store) : store[k].name = name
                \/ portal = << >>
             THEN AddFromNews(store, items, i + 1)
             ELSE IF best.confidence_score < CreateTenths
             THEN AddFromNews(store, items, i + 1)
             ELSE AddFromNews(IF at = 0 THEN Append(store, player)
                              ELSE [store EXCEPT ![at] = player],
                              items, i + 1)

\* _integrate_news_data on the day today
IntegrateNewsData(store, items, today) ==
    AddFromNews([k \in 1..Len(store) |->
                    ApplyNews(store[k], QueryNewsItems(items, store[k].name, DaysBack, 0, today), 1)],
                items, 1)

-----------------------------------------------------------------------------
(* Refreshes in flight together, the news task's cycle and readers *)

Today == 3

\* what the news scrapers return in a cycle: a headline may spell a name in
\* small letters
EnrichBatches ==
    {<<[NewsItem(ESPN, U1, Zed, 3, None, Some(Duke), 9) EXCEPT !.event_types = <<PORTAL_ENTRY>>],
       [NewsItem(ESPN, U2, Amy, 2, Some(UK), Some(Kentucky), 8) EXCEPT !.event_types = <<COMMITMENT>>],
       [NewsItem(ESPN, U1, Lower(Amy), 3, None, None, 9) EXCEPT !.event_types = <<PORTAL_ENTRY>>],
       [NewsItem(ESPN, U2, Bo, 3, None, Some(Duke), 7) EXCEPT !.event_types = <<PORTAL_ENTRY>>]>>}

\* the batch a fetch returns: ON3 alone lists Amy
ReaderBatch(source) == IF source = ON3 THEN <<AmyFrom(source)>> ELSE <<BoFrom(source)>>

\* a cycle of _schedule_news_refreshes from the return of the scrapers on: the
\* items are stored and post-processed, then _integrate_news_data runs
NewsCycle(batch) ==
    /\ nNews < MaxNews
    /\ LET items == PostProcessNewsItems(StoreItems(news_items, batch))
       IN  /\ newsPre' = StoreItems(news_items, batch)
           /\ news_items' = items
           /\ players' = IntegrateNewsData(players, items, Today)
    /\ nNews' = nNews + 1
    /\ UNCHANGED <<metrics, data_cache, last_consolidation, now, newsPc, newsPending>>
    /\ UNCHANGED <<callVars, mergeVars, queryVars, apiVars, schedVars>>

\* the sources a single refresh is asked for while readers run
ReaderSources == {ON3, RIVALS}

NextReaders ==
    \/ allPc = "idle" /\ \E source \in ReaderSources : RefreshAgentBegin(source)
    \/ calls[SINGLE].pc # "fetching" /\ RefreshAllStart(MaxCalls + 1)
    \/ \E c \in CallIds : FetchReturned(c, ReaderBatch(calls[c].source))
    \/ \E c \in CallIds, exc \in FetchErrors : FetchFail(c, exc)
    \/ RefreshAllReturn
    \/ \E batch \in EnrichBatches : NewsCycle(batch)
    \/ Query([DefaultQuery EXCEPT !.limit = None])

SpecReaders == Init /\ [][NextReaders]_vars

-----------------------------------------------------------------------------
(* Claims about what a reader sees of a consolidation pass *)

\* a refresh_agent invocation has just run its consolidation pass
PassStep == \E s \in Sources : metrics'[s].refresh_count > metrics[s].refresh_count

Removed == pass.existing \ pass.processed

\* the store holds every player the last pass processed, and none the pass had
\* to remove other than one the enrichment has created since
NoPassPending(store) ==
    /\ pass.processed \subseteq StoreIds(store)
    /\ \A k \in 1..Len(store) :
           store[k].player_id \in Removed => store[k].sources = <<ALL>>

\* C17: under any interleaving of the refreshes, the news task's cycle and the
\* readers, a step that runs a consolidation pass leaves the store with every
\* record of the pass merged and every removal done, and the store query_players
\* reads is such a store, possibly enriched since: never one with records of the
\* pass unmerged or a removal pending
C17_AtomicConsolidation ==
    [][/\ PassStep =>
              /\ pass'.processed \subseteq StoreIds(players')
              /\ StoreIds(players') \cap (pass'.existing \ pass'.processed) = {}
       /\ (QueryReturned /\ pass.ran) =>
              /\ NoPassPending(players)
              /\ result' = QueryPlayers(players, asked'[1])]_vars

\* query_players has read the store after a pass that removed a player and a
\* cycle of the news task that added one
C17_Witness ==
    /\ asked # None
    /\ pass.ran /\ Removed # {}
    /\ nNews > 0
    /\ result = QueryPlayers(players, asked[1])
    /\ \E k \in 1..Len(players) : players[k].sources = <<ALL>>
    /\ StoreIds(players) \cap Removed = {}

-----------------------------------------------------------------------------
(* Claims about the batch of a source whose last refresh failed *)

\* C21 as stated: the batch cached for a source that succeeded before and
\* whose last refresh failed is still in the store, whatever passes have run
C21_StaleDataKept ==
    \A s \in Sources :
        (metrics[s].status = ERROR /\ metrics[s].refresh_count > 0) =>
            BatchIds(data_cache[s]) \subseteq StoreIds(players)

LiveSources(m) == {t \in Sources : IsLive(m[t].status)}

\* C21 amended: a pass skips every source whose status is ERROR, so after the
\* pass the store holds the players of the batches cached for the sources that
\* are READY or RUNNING and no others: the players only a failed source
\* contributed are removed
C21_FailedSourceSkipped ==
    [][PassStep =>
           StoreIds(players') =
               UNION {BatchIds(data_cache'[t]) : t \in LiveSources(metrics')}]_vars

\* ON3 succeeded with Amy and then failed; the pass of RIVALS' refresh has
\* removed Amy, whom ON3's cached batch still lists
C21_Witness ==
    /\ metrics[ON3].status = ERROR /\ metrics[ON3].refresh_count > 0
    /\ data_cache[ON3] = <<AmyFrom(ON3)>>
    /\ metrics[RIVALS].status = READY
    /\ data_cache[RIVALS] = <<BoFrom(RIVALS)>>
    /\ pass.ran /\ GeneratePlayerId(Amy, None) \in pass.existing
    /\ GeneratePlayerId(Amy, None) \notin StoreIds(players)
    /\ GeneratePlayerId(Bo, None) \in StoreIds(players)

-----------------------------------------------------------------------------
(* Claims about the order in which the sources' refreshes are merged *)

\* every source has refreshed successfully once, each with its record of Amy
AllRefreshedAmy ==
    \A s \in Sources :
        /\ metrics[s].status = READY /\ metrics[s].refresh_count = 1
        /\ data_cache[s] = <<AmyFrom(s)>>

\* the store the three batches give when merged into an empty store in the
\* order of self.agents
MergedInAgentOrder == ConsolidateData(<< >>, data_cache, metrics, now).store

\* C22: once every source has refreshed with its batch, ON3's among them, the
\* scalar fields of the player are the same whatever the order in which the
\* refreshes completed: they are those of the merge in the order of self.agents
C22_InterleavingDeterminism ==
    AllRefreshedAmy =>
        \A f \in ScalarFields :
            Lookup(players, GeneratePlayerId(Amy, None))[f] =
                Lookup(MergedInAgentOrder, GeneratePlayerId(Amy, None))[f]

\* the refresh of TWO47 completed first and set the destination school, which
\* no later merge changes; merged after ON3, TWO47 sets no field
C22_Witness ==
    /\ AllRefreshedAmy
    /\ Lookup(players, GeneratePlayerId(Amy, None)).destination_school = Some(Duke)
    /\ Lookup(MergedInAgentOrder, GeneratePlayerId(Amy, None)).destination_school = None

-----------------------------------------------------------------------------
(* Claims about two sources other than ON3 supplying the same field *)

\* the last two merges are of one identity, by two different sources other
\* than ON3, and ON3 has merged no record of that identity
TwoOthersMerged ==
    /\ Len(hist) = 2
    /\ hist[1].id = hist[2].id
    /\ hist[1].source # ON3 /\ hist[2].source # ON3
    /\ hist[1].source # hist[2].source
    /\ hist[1].id \notin DOMAIN on3Said

\* field f of the identity was empty before the first of the two merges
EmptyBeforeBoth(f) ==
    hist[2].id \in StoreIds(hist[2].before) =>
        ~TruthyText(Lookup(hist[2].before, hist[2].id)[f])

\* C23: when two sources other than ON3 both supply a value for a scalar field
\* that was empty, the store holds the value of the source merged last
C23_LastWriterWins ==
    TwoOthersMerged =>
        \A f \in ScalarFields :
            (/\ EmptyBeforeBoth(f)
             /\ Supplied(hist[1].rec, f) # None
             /\ Supplied(hist[2].rec, f) # None) =>
                PlayerAfter[f] = Supplied(hist[1].rec, f)

\* both supplied a position, the second another one than the first, and the
\* store holds the position of the source merged first
C23_Witness ==
    /\ TwoOthersMerged
    /\ EmptyBeforeBoth("position")
    /\ Supplied(hist[1].rec, "position") # None
    /\ Supplied(hist[2].rec, "position") # None
    /\ Supplied(hist[1].rec, "position") # Supplied(hist[2].rec, "position")
    /\ PlayerAfter.position = Supplied(hist[2].rec, "position")

-----------------------------------------------------------------------------
(* Claims about the wait before a scheduled refresh *)

\* the task of source s has just computed its wait and gone to sleep
WentToSleep(s) == tasks'[s] # tasks[s] /\ tasks'[s].pc = "sleeping"

\* 10 seconds times the index of the source in self.agents
StaggerOf(s) == CASE s = ON3 -> 0 [] s = RIVALS -> 10 [] s = TWO47 -> 20

\* C24: the wait of a source's task before its next attempt is
\* max(0, refresh_interval - seconds since the source's last successful
\* refresh) when the source has succeeded, and 10 seconds times the source's
\* index when it never has; it is never negative, and when a task goes round
\* its loop the tasks of the other sources are left as they are
C24_SchedulerTiming ==
    [][\A s \in Sources :
           WentToSleep(s) =>
               LET wait == tasks'[s].wake - now
                   last == metrics'[s].last_successful_refresh
               IN  /\ wait >= 0
                   /\ last # None =>
                          wait = Max(0, RefreshInterval - (now - last[1]))
                   /\ last = None => wait = StaggerOf(s)
                   /\ tasks[s].pc = "fetching" =>
                          \A t \in Sources \ {s} : tasks'[t] = tasks[t]]_vars

\* the scheduled refresh of a source failed more than refresh_interval after
\* its last success: the wait is 0, not negative; and the task of TWO47, which
\* never succeeded, sleeps its 20 seconds
C24_Witness ==
    /\ \E s \in Sources :
           /\ metrics[s].status = ERROR
           /\ metrics[s].last_successful_refresh # None
           /\ now - metrics[s].last_successful_refresh[1] > RefreshInterval
           /\ tasks[s].pc = "sleeping" /\ tasks[s].wake = now
    /\ metrics[TWO47].last_successful_refresh = None
    /\ tasks[TWO47].pc = "sleeping" /\ tasks[TWO47].wake = 20

-----------------------------------------------------------------------------
(* The tasks running on without end: time is left out, a sleep ends at some *)
(* point, and the counters of the metrics stop counting                     *)

MaxCount == 2

\* the metrics as the endless run keeps them: the count of errors held at
\* MaxCount, the count of refreshes at 1 (none or some), and the average, which
\* is 0 when no time passes, in lowest terms
Capped(m) ==
    [m EXCEPT !.refresh_count = Min(@, 1),
              !.error_count = Min(@, MaxCount),
              !.average_refresh_time_ms =
                  IF @ # None /\ @[1].num = 0 THEN Some([num |-> 0, den |-> 1]) ELSE @]

\* mutant of the task's handling of a failed refresh: the task ends
TaskEndsOnError(m, source, t, caught) == [pc |-> "done", wake |-> t, start |-> 0]

\* lines 214-221: where the task of the source stands after a refresh that
\* failed: round its loop to the next sleep when refresh_agent caught the error
\* and returned False, at the sleep of the task's own except clause otherwise
TaskAfterError(m, source, t, caught) ==
    IF caught THEN Sleeping(m, source, t)
    ELSE [pc |-> "sleeping", wake |-> t + CoolDown, start |-> 0]

\* the sleep of the task has ended: refresh_agent up to the await of scrape_players
LiveWake(s) ==
    /\ TasksLive
    /\ tasks[s].pc = "sleeping"
    /\ metrics' = [metrics EXCEPT ![s] = MetricsOnBegin(@, now)]
    /\ tasks' = [tasks EXCEPT ![s].pc = "fetching", ![s].start = now]
    /\ UNCHANGED <<players, data_cache, last_consolidation, now, callVars, stopPc>>
    /\ UNCHANGED <<mergeVars, queryVars, apiVars, newsVars>>

\* the fetch returned: lines 239-262, then round the loop to the next sleep
LiveFetchReturned(s) ==
    /\ TasksLive
    /\ tasks[s].pc = "fetching"
    /\ LET data == SchedBatch(s)
           m == [metrics EXCEPT ![s] = Capped(MetricsOnSuccess(@, data, tasks[s].start, now))]
           caches == [data_cache EXCEPT ![s] = data]
           done == ConsolidateData(players, caches, m, now)
       IN  /\ metrics' = m
           /\ data_cache' = caches
           /\ players' = done.store
           /\ pass' = [ran |-> TRUE, existing |-> done.existing,
                       processed |-> done.processed]
           /\ last_consolidation' = Some(now)
           /\ tasks' = [tasks EXCEPT ![s] = Sleeping(m[s], s, now)]
    /\ UNCHANGED <<now, calls, allPc, allResult, nCalls, stopPc>>
    /\ UNCHANGED <<mergeVars, queryVars, apiVars, newsVars>>

\* the fetch raised
LiveFetchFail(s, exc) ==
    /\ TasksLive
    /\ tasks[s].pc = "fetching"
    /\ LET caught == CaughtByRefreshAgent(exc)
           m == IF caught THEN [metrics EXCEPT ![s] = Capped(MetricsOnFailure(@))]
                ELSE metrics
       IN  /\ metrics' = m
           /\ tasks' = [tasks EXCEPT ![s] = TaskAfterError(m[s], s, now, caught)]
    /\ UNCHANGED <<players, data_cache, last_consolidation, now, callVars, stopPc>>
    /\ UNCHANGED <<mergeVars, queryVars, apiVars, newsVars>>

\* start() up to the creation of the tasks
StartProgress ==
    \/ allPc = "idle" /\ RefreshAllStart(MaxCalls)
    \/ \E s \in Sources, exc \in FetchErrors : allPc = "gathering" /\ FetchFail(s, exc)
    \/ \E s \in Sources : allPc = "gathering" /\ FetchReturned(s, SchedBatch(s))
    \/ \A s \in Sources : tasks[s].pc = "none" /\ RefreshAllReturn
    \/ StartTasks

\* the steps of the task of one source
TaskProgress(s) ==
    \/ LiveWake(s)
    \/ \E exc \in FetchErrors : LiveFetchFail(s, exc)
    \/ LiveFetchReturned(s)

NextLive ==
    \/ StartProgress
    \/ \E s \in Sources : TaskProgress(s)
    \/ Stop
    \/ \E s \in Sources : TaskCancelled(s)
    \/ StopReturn

\* the event loop runs every coroutine that can run; a sleep ends and a fetch,
\* which has its timeouts, returns or raises
SpecLive ==
    /\ Init /\ [][NextLive]_vars
    /\ WF_vars(StartProgress)
    /\ \A s \in Sources : WF_vars(TaskProgress(s))

\* C25: a task ends only by cancellation, and as long as stop() is not called
\* the task of every source comes to its fetch again and again without end,
\* whatever number of its refreshes failed before
C25_SchedulerLiveness ==
    /\ [](\A s \in Sources : tasks[s].pc = "done" => stopPc # "running")
    /\ \A s \in Sources : []<>(tasks[s].pc = "fetching" \/ stopPc # "running")

\* the scheduled refresh of a source has failed MaxCount times and its task is
\* at its fetch once more
C25_Witness ==
    \E s \in Sources :
        /\ tasks[s].pc = "fetching"
        /\ metrics[s].error_count = MaxCount
        /\ metrics[s].refresh_count = 0
        /\ stopPc = "running"

-----------------------------------------------------------------------------
(* Claims about the integration of the news into the store *)

\* a cycle of the news task has run _integrate_news_data
IntegrationStep == nNews' # nNews

\* some item the integration reads for the player, of a kind it uses, with a
\* confidence of at least the floor and a value for the field
SignalFor(player, f, floor) ==
    \E i \in 1..Len(news_items') :
        LET item == news_items'[i]
        IN  /\ Contains(Lower(item.player_name), Lower(player.name))
            /\ Has(item.event_types, COMMITMENT) \/ Has(item.event_types, PORTAL_ENTRY)
            /\ item.confidence_score >= floor
            /\ TruthyText(item[f])

\* C26: the integration step changes the destination_school of a player of the
\* store only when it was empty and a signal of confidence 0.7 or more names
\* one, changes the previous_school only when it was empty and a signal names
\* one, and changes no previous_school or destination_school that has a value
C26_EnrichmentNeverOverwrites ==
    [][IntegrationStep =>
           \A id \in StoreIds(players) :
               LET before == Lookup(players, id)
                   after == Lookup(players', id)
               IN  /\ id \in StoreIds(players')
                   /\ after.destination_school # before.destination_school =>
                          /\ ~TruthyText(before.destination_school)
                          /\ SignalFor(before, "destination_school", UpdateTenths)
                   /\ after.previous_school # before.previous_school =>
                          /\ ~TruthyText(before.previous_school)
                          /\ SignalFor(before, "previous_school", 0)]_vars

\* the player the last pass merged from a source is held as the news made it:
\* under the name of a headline, from no source, its previous_school gone
C26_Witness ==
    /\ pass.ran /\ GeneratePlayerId(Amy, None) \in pass.processed
    /\ \E k \in 1..Len(players) :
           /\ players[k].player_id = GeneratePlayerId(Amy, None)
           /\ players[k].name = Lower(Amy)
           /\ players[k].sources = <<ALL>>
           /\ players[k].previous_school = None

-----------------------------------------------------------------------------
(* Claims about the number of signals post-processing needs *)

\* _post_process_news_items has just run
PostProcessStep == newsPc = "gathering" /\ newsPc' = "idle"

\* C27: post-processing leaves the confidence and the verified flag of every
\* signal of a player with fewer than 3 signals as they were
C27_ConsensusThreshold ==
    [][PostProcessStep =>
           \A i \in 1..Len(news_items) :
               Len(ItemsOf(news_items, news_items[i].player_name)) < ConsensusSize =>
                   /\ news_items'[i].confidence_score = news_items[i].confidence_score
                   /\ news_items'[i].verified = news_items[i].verified]_vars

\* post-processing found two signals for a player, naming two destinations, and
\* lowered the confidence of one of them
C27_Witness ==
    /\ newsPc = "idle"
    /\ Len(newsPre) = 2 /\ Len(news_items) = 2
    /\ newsPre[1].player_name = newsPre[2].player_name
    /\ TruthyText(newsPre[1].destination_school) /\ TruthyText(newsPre[2].destination_school)
    /\ newsPre[1].destination_school # newsPre[2].destination_school
    /\ \E i \in 1..2 : news_items[i].confidence_score < newsPre[i].confidence_score

\* a signal for the name that is classified as a portal entry, with a
\* confidence of at least the floor
PortalSignal(name, floor) ==
    \E i \in 1..Len(news_items') :
        /\ news_items'[i].player_name = name
        /\ \E j \in 1..Len(news_items'[i].event_types) :
               news_items'[i].event_types[j] = PORTAL_ENTRY
        /\ news_items'[i].confidence_score >= floor

\* C28: the integration step removes no identity from the store, and every
\* identity it adds is that of a player whose name no store player had and for
\* whose name a portal-entry signal of confidence 0.8 or more exists
C28_EnrichmentCreation ==
    [][IntegrationStep =>
           /\ StoreIds(players) \subseteq StoreIds(players')
           /\ \A id \in StoreIds(players') \ StoreIds(players) :
                  LET name == Lookup(players', id).name
                  IN  /\ \A k \in 1..Len(players) : players[k].name # name
                      /\ PortalSignal(name, CreateTenths)]_vars

\* the integration has added Zed, whose portal entry a signal reports with
\* confidence 0.9, and neither Amy, whose signal is a commitment, nor Bo, whose
\* portal entry a signal reports with confidence 0.7
C28_Witness ==
    /\ nNews > 0
    /\ StoreIds(players) = {GeneratePlayerId(Zed, None), GeneratePlayerId(Lower(Amy), None)}
    /\ \A k \in 1..Len(players) : players[k].sources = <<ALL>>
    /\ \E i \in 1..Len(news_items) :
           /\ news_items[i].player_name = Bo
           /\ news_items[i].event_types = <<PORTAL_ENTRY>>
           /\ news_items[i].confidence_score < CreateTenths
    /\ \E i \in 1..Len(news_items) :
           /\ news_items[i].player_name = Amy
           /\ news_items[i].event_types = <<COMMITMENT>>
           /\ news_items[i].confidence_score >= CreateTenths

-----------------------------------------------------------------------------
(* Claims about the per-source maps and the sources list *)

PerSourceMaps == {"rankings", "stats", "profile_urls", "nil_valuation", "last_updated"}

\* C29: a merge from source S leaves the entries of every other source in the
\* rankings, stats, profile_urls, nil_valuation and last_updated maps of the
\* player as they were, and adds no entry at a key other than S; a player the
\* merge creates had no entry before
C29_PerSourceFrame ==
    hist # << >> =>
        LET after == PlayerAfter
            created == ~HadPlayerBefore
            before == IF created THEN after ELSE PlayerBefore
        IN  \A f \in PerSourceMaps :
                LET was == IF created THEN << >> ELSE before[f]
                IN  /\ DOMAIN after[f] \subseteq DOMAIN was \cup {LastMerge.source}
                    /\ \A s \in DOMAIN was \ {LastMerge.source} :
                           s \in DOMAIN after[f] /\ after[f][s] = was[s]

\* a record with a rank, stats, a valuation and a profile url has been merged
\* into a player that held all of them from another source
C29_Witness ==
    /\ hist # << >> /\ HadPlayerBefore
    /\ \E s \in Sources \ {LastMerge.source} :
           \A f \in PerSourceMaps :
               /\ DOMAIN PlayerBefore[f] = {s}
               /\ DOMAIN PlayerAfter[f] = {s, LastMerge.source}
    /\ PlayerAfter.rankings[LastMerge.source] = 8

\* the list holds no element twice
NoDuplicates(list) == \A i, j \in 1..Len(list) : list[i] = list[j] => i = j

\* C30: a player a merge creates has the merging source as its only source, the
\* sources of a player contain every source that merged a record for it, in the
\* order of their first merge, and no source twice
C30_SourcesMembership ==
    /\ \A k \in 1..Len(players) : NoDuplicates(players[k].sources)
    /\ hist # << >> =>
           LET after == PlayerAfter.sources
           IN  /\ ~HadPlayerBefore => after = <<LastMerge.source>>
               /\ HadPlayerBefore =>
                      LET before == PlayerBefore.sources
                      IN  /\ \A i \in 1..Len(before) : Has(after, before[i])
                          /\ Len(after) <= Len(before) + 1
               /\ \A h \in 1..Len(hist) :
                      Has(Lookup(players, hist[h].id).sources, hist[h].source)

\* two sources have merged a record for one player, one after the other
C30_Witness ==
    /\ Len(hist) = 2 /\ hist[1].id = hist[2].id
    /\ hist[1].source # hist[2].source
    /\ PlayerBefore.sources = <<hist[2].source>>
    /\ PlayerAfter.sources = <<hist[2].source, hist[1].source>>

-----------------------------------------------------------------------------
(* Claims about the effect of a failed refresh and the average refresh time *)

\* the refresh_agent invocation c has just ended in its except clause
FailedStep(c) ==
    calls[c].pc = "fetching" /\ calls'[c].pc = "returned" /\ calls'[c].fetched = "error"

\* C31: a failed refresh of a source adds one to the error_count of the source
\* and sets its status to ERROR; every other metric of the source, its cached
\* batch, the metrics of the other sources and the store stay as they were,
\* and no consolidation pass runs
C31_FailureEffect ==
    [][\A c \in CallIds :
           FailedStep(c) =>
               LET a == calls[c].source
               IN  /\ metrics'[a] = [metrics[a] EXCEPT !.error_count = @ + 1,
                                                       !.status = ERROR]
                   /\ \A b \in Sources \ {a} : metrics'[b] = metrics[b]
                   /\ data_cache' = data_cache
                   /\ players' = players
                   /\ last_consolidation' = last_consolidation
                   /\ pass' = pass]_vars

\* a refresh of a source that had succeeded before has failed: the source keeps
\* its count of refreshes, its cached batch and its players in the store
C31_Witness ==
    \E c \in CallIds :
        LET a == calls[c].source
        IN  /\ calls[c].pc = "returned" /\ calls[c].fetched = "error"
            /\ metrics[a].status = ERROR
            /\ metrics[a].error_count = 1
            /\ metrics[a].refresh_count = 1
            /\ data_cache[a] # << >>
            /\ players # << >>

\* the samples, in milliseconds, of the refreshes of source s that have just
\* succeeded: those of the gathered and manual invocations and that of the task
SamplesOfStep(s) ==
    {(now - calls[c].start) * 1000 :
        c \in {d \in CallIds : /\ calls[d].source = s
                               /\ calls[d].pc = "fetching"
                               /\ calls'[d].pc = "returned" /\ calls'[d].fetched = "ok"}}
    \cup {(now - tasks[t].start) * 1000 :
            t \in {u \in {s} : tasks[u].pc = "fetching" /\ tasks'[u].pc = "sleeping"
                               /\ metrics'[u].refresh_count > metrics[u].refresh_count}}

\* x <= y for fractions with positive denominators
FracLeq(x, y) == x.num * y.den <= y.num * x.den

-----------------------------------------------------------------------------
(* Claims about the status while refreshes of one source overlap, and after *)
(* stop()                                                                   *)

\* some refresh_agent invocation for the source awaits its fetch
InFlight(s) ==
    \/ tasks[s].pc = "fetching"
    \/ \E c \in CallIds : calls[c].source = s /\ calls[c].pc = "fetching"

\* C33: the status of a source is RUNNING whenever a refresh of the source is
\* in flight
C33_StatusReflectsInFlight ==
    \A s \in Sources : InFlight(s) => metrics[s].status = RUNNING

\* the manual refresh of a source awaits its fetch while the scheduled refresh
\* of the source has ended and the status tells its outcome
C33_Witness ==
    \E s \in Sources :
        /\ calls[SINGLE].source = s /\ calls[SINGLE].pc = "fetching"
        /\ tasks[s].pc = "sleeping"
        /\ metrics[s].status \in {READY, ERROR}

-----------------------------------------------------------------------------
(* Claims about the sources that contribute to a player *)

\* the live sources whose cached batch holds a record of the identity
Contributors(id, caches, m) == {s \in LiveSources(m) : id \in BatchIds(caches[s])}

\* C34: after a consolidation pass the sources of every player of the store
\* are exactly the live sources whose cached batch holds the player, and the
\* rankings map has no key of another source
C34_ContributorsCurrent ==
    [][PassStep =>
           \A k \in 1..Len(players') :
               LET p == players'[k]
                   now_in == Contributors(p.player_id, data_cache', metrics')
               IN  /\ {p.sources[i] : i \in 1..Len(p.sources)} = now_in
                   /\ DOMAIN p.rankings \subseteq now_in]_vars

\* a player of the store has a source among its sources, and a rank of that
\* source, whose cached batch no longer holds the player
C34_Witness ==
    /\ pass.ran
    /\ \E k \in 1..Len(players) : \E s \in Sources :
           /\ Has(players[k].sources, s)
           /\ s \in DOMAIN players[k].rankings
           /\ metrics[s].status = READY
           /\ players[k].player_id \notin BatchIds(data_cache[s])
           /\ Contributors(players[k].player_id, data_cache, metrics) # {}

-----------------------------------------------------------------------------
(* Claims about the players the news integration creates *)

\* the record but for the two fields the first loop of the integration may set
ButSchools(p) == [p EXCEPT !.previous_school = None, !.destination_school = None]

\* C35: the integration step replaces no record of the store: every player of
\* the store is afterwards the same record, but for a previous_school or
\* destination_school the signals filled in
C35_CreationDoesNotClobber ==
    [][IntegrationStep =>
           \A id \in StoreIds(players) :
               /\ id \in StoreIds(players')
               /\ ButSchools(Lookup(players', id)) = ButSchools(Lookup(players, id))]_vars

\* ON3's batch holds Amy, whom the last pass merged, and the store holds under
\* her identity the record made from the headline: no position, no rank
C35_Witness ==
    /\ nNews > 0
    /\ metrics[ON3].status = READY /\ data_cache[ON3] = <<AmyFrom(ON3)>>
    /\ \E k \in 1..Len(players) :
           /\ players[k].player_id = GeneratePlayerId(Amy, None)
           /\ players[k].name = Lower(Amy)
           /\ players[k].position = None
           /\ players[k].rankings = << >>
           /\ players[k].status = Some(InPortalStatus)

\* C36 as stated: every element of the sources of every player of the store is
\* one of ON3, RIVALS and TWO47
C36_SourcesConcrete ==
    \A k \in 1..Len(players) : \A i \in 1..Len(players[k].sources) :
        players[k].sources[i] \in Sources

\* C36: the sources of a player are not empty; their first element is the
\* source whose merge created the player, or ALL when the news integration
\* created it; every later element is one of ON3, RIVALS and TWO47
C36_SourcesConcreteButNewsMark ==
    \A k \in 1..Len(players) :
        /\ players[k].sources # << >>
        /\ players[k].sources[1] \in Sources \cup {ALL}
        /\ \A i \in 2..Len(players[k].sources) : players[k].sources[i] \in Sources

\* a player the news integration created has since been merged from ON3
C36_Witness ==
    \E k \in 1..Len(players) :
        /\ players[k].sources = <<ALL, ON3>>
        /\ players[k].name = Lower(Amy)
        /\ ON3 \in DOMAIN players[k].rankings

-----------------------------------------------------------------------------
(* Claims about repeated post-processing and the penalty *)

\* _post_process_news_items finds the signals as its last run left them
NoNewSignals == newsPre # << >> /\ news_items = PostProcessNewsItems(newsPre)

\* C37: a run of post-processing that finds the signals as the last run left
\* them changes no confidence and no verified flag
C37_PostProcessIdempotent ==
    [][(PostProcessStep /\ NoNewSignals) =>
           \A i \in 1..Len(news_items) :
               /\ news_items'[i].confidence_score = news_items[i].confidence_score
               /\ news_items'[i].verified = news_items[i].verified]_vars

\* the second refresh brought nothing new and a signal that was verified by
\* the first run has a higher confidence after the second
C37_Witness ==
    /\ nNews = 2 /\ newsPc = "idle"
    /\ Len(news_items) = Len(newsPre)
    /\ \E i \in 1..Len(newsPre) :
           /\ newsPre[i].verified
           /\ news_items[i].id = newsPre[i].id
           /\ news_items[i].confidence_score = newsPre[i].confidence_score + BoostTenths

\* C38: post-processing gives no signal that disagrees with the majority value
\* of a school field a higher confidence than it had
C38_PenaltyNeverRaises ==
    [][PostProcessStep =>
           \A i \in 1..Len(news_items) :
               DisagreesWithMajority(news_items[i], ItemsOf(news_items, news_items[i].player_name)) =>
                   news_items'[i].confidence_score <= news_items[i].confidence_score]_vars

\* a signal of confidence 0.2 named another destination than the two other
\* signals of the player and has confidence 0.3 after post-processing
C38_Witness ==
    /\ newsPc = "idle"
    /\ Len(newsPre) = 3 /\ Len(news_items) = 3
    /\ \E i \in 1..3 :
           /\ newsPre[i].confidence_score < FloorTenths
           /\ DisagreesWithMajority(newsPre[i], newsPre)
           /\ news_items[i].confidence_score = FloorTenths

-----------------------------------------------------------------------------
(* Claims about the status of the sources after stop()                      *)

\* C39: when stop() has returned, no source whose refresh was cancelled has
\* the status RUNNING: a source reports a refresh in progress only while a
\* refresh_agent invocation for it still awaits its fetch
C39_NoRunningAfterStop ==
    stopPc = "returned" =>
        \A s \in Sources : metrics[s].status = RUNNING => InFlight(s)

\* stop() has returned, no manual refresh is in flight, and the task of a
\* source has ended while its status tells a refresh in progress
C39_Witness ==
    /\ stopPc = "returned"
    /\ calls[SINGLE].pc # "fetching"
    /\ \E s \in Sources : tasks[s].pc = "done" /\ metrics[s].status = RUNNING

-----------------------------------------------------------------------------
(* The simplified API of fastapi_orchestrator: startup_event, trigger_refresh *)
(* and the refresh_data background task                                      *)

MaxRequests == 2

\* what portal_agent.scrape_players() returns
ApiBatches == QueryBatches

\* startup_event: asyncio.create_task(refresh_data()); the task begins at a
\* later turn of the event loop
StartupEvent ==
    /\ ~refresh_data.up
    /\ refresh_data' = [refresh_data EXCEPT !.up = TRUE, !.pending = @ + 1]
    /\ UNCHANGED <<orchVars, now, callVars, mergeVars, queryVars, newsVars, schedVars,
                   portal_stats, player_cache, answers>>

\* POST /refresh: trigger_refresh answers already_running when agent_status is
\* "running"; otherwise it adds refresh_data to the background tasks, which
\* run after the response is sent, and answers refresh_started
TriggerRefresh ==
    /\ refresh_data.up
    /\ Len(answers) < MaxRequests
    /\ IF portal_stats.agent_status = "running"
       THEN /\ answers' = Append(answers, "already_running")
            /\ UNCHANGED refresh_data
       ELSE /\ answers' = Append(answers, "refresh_started")
            /\ refresh_data' = [refresh_data EXCEPT !.pending = @ + 1]
    /\ UNCHANGED <<orchVars, now, callVars, mergeVars, queryVars, newsVars, schedVars,
                   portal_stats, player_cache>>

\* refresh_data from its first statement to the await of scrape_players
RefreshDataBegin ==
    /\ refresh_data.pending > 0
    /\ refresh_data' = [refresh_data EXCEPT !.pending = @ - 1, !.running = @ + 1]
    /\ portal_stats' = [portal_stats EXCEPT !.agent_status = "running"]
    /\ UNCHANGED <<orchVars, now, callVars, mergeVars, queryVars, newsVars, schedVars,
                   player_cache, answers>>

\* scrape_players returned: refresh_data fills the cache and the statistics
RefreshDataReturned(data) ==
    /\ refresh_data.running > 0
    /\ refresh_data' = [refresh_data EXCEPT !.running = @ - 1]
    /\ player_cache' = data
    /\ portal_stats' = [agent_status |-> "ready", player_count |-> Len(data)]
    /\ UNCHANGED <<orchVars, now, callVars, mergeVars, queryVars, newsVars, schedVars,
                   answers>>

\* scrape_players raised: the handler of refresh_data sets the status
RefreshDataFail ==
    /\ refresh_data.running > 0
    /\ refresh_data' = [refresh_data EXCEPT !.running = @ - 1]
    /\ portal_stats' = [portal_stats EXCEPT !.agent_status = "error"]
    /\ UNCHANGED <<orchVars, now, callVars, mergeVars, queryVars, newsVars, schedVars,
                   player_cache, answers>>

NextApi ==
    \/ StartupEvent
    \/ TriggerRefresh
    \/ RefreshDataBegin
    \/ \E data \in ApiBatches : RefreshDataReturned(data)
    \/ RefreshDataFail

SpecApi == Init /\ [][NextApi]_vars

\* the refresh_data tasks that are pending or running
RefreshesAlive == refresh_data.pending + refresh_data.running

\* C40: at most one refresh_data task is pending or running at a time, and a
\* POST /refresh that arrives while one is pending or running is answered
\* already_running and starts no refresh
C40_SingleRefresh ==
    /\ [](RefreshesAlive <= 1)
    /\ [][(Len(answers') > Len(answers) /\ RefreshesAlive > 0) =>
              /\ answers'[Len(answers')] = "already_running"
              /\ refresh_data' = refresh_data]_vars

\* two refresh_data tasks await their fetch at once, the second one started by
\* a request that was answered refresh_started
C40_Witness ==
    /\ refresh_data.running = 2
    /\ \E i \in 1..Len(answers) : answers[i] = "refresh_started"

====
